---------------------------- MODULE Spec2Model ----------------------------
(***************************************************************************)
(* Data-visualisation backend (FastAPI + MongoDB): user directory,         *)
(* request authentication, OAuth bridge, dataset ingestion and plots.      *)
(*                                                                         *)
(* Storage is the four Mongo collections.  A request handler is one action *)
(* unless a claim is about what happens between two of its storage calls;  *)
(* then the handler is split at its awaits and the part in flight is kept  *)
(* in `inflight`.  `resp` is the HTTP response (or service result) of the  *)
(* request that completed last, together with the request it answers.      *)
(***************************************************************************)
EXTENDS Naturals, Integers, Sequences, FiniteSets, TLC

VARIABLES
    users,          \* collection "users": sequence of documents, in insertion order
    datasets,       \* collection "datasets": set of documents
    data_records,   \* collection "data_records": set of documents
    plots,          \* collection "plots": set of documents
    nextId,         \* next ObjectId the driver generates for datasets / plots
    now,            \* wall clock, in token-lifetime units
    bearer,         \* the bearer token the client kept from an earlier response
    inflight,       \* per request slot: where a suspended handler stands
    resp            \* the last completed request and its response

vars == <<users, datasets, data_records, plots, nextId, now, bearer, inflight, resp>>

storage == <<users, datasets, data_records, plots>>

(***************************************************************************)
(* Bounds of the model.                                                    *)
(***************************************************************************)
MaxUsers == 2       \* user documents ever inserted
MaxReqs == 2        \* auth requests in flight at once
MaxTime == 3        \* clock ticks
MaxIds == 2         \* ObjectIds generated for datasets and plots
TokenLifetime == 2  \* settings.jwt_access_token_expire_minutes, in ticks

Reqs == 1..MaxReqs

(***************************************************************************)
(* Absent values.  Python's None for an optional document is the record    *)
(* None; for an optional string it is NoneStr.                             *)
(***************************************************************************)
None == [none |-> TRUE]
NoneStr == "None"

Emails == {"a@x", "b@x"}
Passwords == {"pw1", "pw2"}
Usernames == {"u1", "u2"}

(***************************************************************************)
(* Credential Service (app/core/security.py).  The hash is a black-box     *)
(* one-way function: injective, and verify holds exactly for the password  *)
(* that was hashed.  A local token carries its subject and expiry and is   *)
(* valid when it is signed with the process key and not expired.           *)
(***************************************************************************)
get_password_hash(password) == <<"hash", password>>

verify_password(password, hashed_password) == hashed_password = get_password_hash(password)

create_access_token(sub, expires_delta, t) ==
    [prefix |-> "eyJ", signed |-> TRUE, sub |-> sub, exp |-> t + expires_delta]

\* verify_token: the claims of the token, or "raise" (InvalidToken).
verify_token(token, t) ==
    IF token.signed /\ t < token.exp
    THEN [raise |-> FALSE, sub |-> token.sub]
    ELSE [raise |-> TRUE, sub |-> NoneStr]

(***************************************************************************)
(* User Directory (app/services/user_service.py).                          *)
(***************************************************************************)
UserCreates == [email : Emails, username : Usernames, password : Passwords]

\* collection.find_one({"email": email}): the first matching document.
find_one_user(us, email) ==
    LET hits == {i \in 1..Len(us) : us[i].email = email}
    IN  IF hits = {} THEN None
        ELSE us[CHOOSE i \in hits : \A j \in hits : i <= j]

get_user_by_email(us, email) == find_one_user(us, email)

\* UserInDB(**user_create.model_dump(exclude={"password"}), hashed_password=...)
UserInDB(us, user_create) ==
    [id |-> Len(us) + 1,
     email |-> user_create.email,
     username |-> user_create.username,
     hashed_password |-> get_password_hash(user_create.password),
     is_active |-> TRUE]

\* create_user, first await: the existence check (lines 15-17).
MutCreateUserExistsByUsername(us, user_create) ==
    \E i \in 1..Len(us) : us[i].username = user_create.username

create_user_exists(us, user_create) ==
    get_user_by_email(us, user_create.email) # None

\* create_user, second await: insert_one (lines 20-30).
create_user_insert(us, user_create) == Append(us, UserInDB(us, user_create))

authenticate_user(us, email, password) ==
    LET user_doc == find_one_user(us, email)
    IN  IF user_doc = None THEN None
        ELSE IF ~verify_password(password, user_doc.hashed_password) THEN None
        ELSE user_doc


(***************************************************************************)
(* Auth endpoints (app/api/auth.py).                                       *)
(***************************************************************************)
Response(op, req, status, detail, body) ==
    [op |-> op, req |-> req, status |-> status, detail |-> detail, body |-> body]

NoResponse == Response("none", None, 0, "", None)

Idle == [pc |-> "idle", user_create |-> None]

\* A handler that may insert a user starts only while the collection has room.
UserRoom ==
    Len(users) + Cardinality({r \in Reqs : inflight[r].pc # "idle"}) < MaxUsers

\* The token made out to the username instead of the email.
MutAccessTokenSubUsername(user) == create_access_token(user.username, TokenLifetime, now)

\* timedelta(minutes=settings.jwt_access_token_expire_minutes); data={"sub": user.email}
access_token(user) == create_access_token(user.email, TokenLifetime, now)

LoginResponse(op, req, message, user) ==
    Response(op, req, 200, message, [user |-> user, token |-> access_token(user)])

\* POST /register up to create_user's existence check.
register(r, user_create) ==
    /\ inflight[r].pc = "idle"
    /\ UserRoom
    /\ IF create_user_exists(users, user_create)
       THEN \* ValueError -> HTTP 400, detail=str(e)
            /\ resp' = Response("register", user_create, 400,
                                "User with this email already exists", None)
            /\ UNCHANGED inflight
       ELSE /\ inflight' = [inflight EXCEPT ![r] =
                               [pc |-> "register_insert", user_create |-> user_create]]
            /\ UNCHANGED resp
    /\ UNCHANGED <<users, datasets, data_records, plots, nextId, now, bearer>>

\* POST /register from create_user's insert_one to the response.
register_insert(r) ==
    /\ inflight[r].pc = "register_insert"
    /\ LET user_create == inflight[r].user_create
           user == UserInDB(users, user_create)
       IN  /\ users' = create_user_insert(users, user_create)
           /\ resp' = LoginResponse("register", user_create,
                                    "User registered successfully", user)
    /\ inflight' = [inflight EXCEPT ![r] = Idle]
    /\ UNCHANGED <<datasets, data_records, plots, nextId, now, bearer>>

GoogleAuthRequests == [email : Emails, name : {"n"}, google_id : {"g"}]

\* username=google_data.email.split('@')[0], password="google_oauth_user"
GoogleUserCreate(google_data) ==
    [email |-> google_data.email,
     username |-> IF google_data.email = "a@x" THEN "a" ELSE "b",
     password |-> "google_oauth_user"]

\* POST /google up to get_user_by_email.
google_auth(r, google_data) ==
    /\ inflight[r].pc = "idle"
    /\ UserRoom
    /\ LET existing_user == get_user_by_email(users, google_data.email)
       IN  IF existing_user # None
           THEN /\ resp' = LoginResponse("google_auth", google_data,
                                         "Google authentication successful", existing_user)
                /\ UNCHANGED inflight
           ELSE /\ inflight' = [inflight EXCEPT ![r] =
                                   [pc |-> "google_create",
                                    user_create |-> GoogleUserCreate(google_data)]]
                /\ UNCHANGED resp
    /\ UNCHANGED <<users, datasets, data_records, plots, nextId, now, bearer>>

\* POST /google: create_user's existence check.
google_create(r) ==
    /\ inflight[r].pc = "google_create"
    /\ IF create_user_exists(users, inflight[r].user_create)
       THEN \* ValueError falls into "except Exception" -> HTTP 500
            /\ resp' = Response("google_auth", inflight[r].user_create, 500,
                                "Google authentication failed", None)
            /\ inflight' = [inflight EXCEPT ![r] = Idle]
       ELSE /\ inflight' = [inflight EXCEPT ![r].pc = "google_insert"]
            /\ UNCHANGED resp
    /\ UNCHANGED <<users, datasets, data_records, plots, nextId, now, bearer>>

\* POST /google from create_user's insert_one to the response.
google_insert(r) ==
    /\ inflight[r].pc = "google_insert"
    /\ LET user_create == inflight[r].user_create
           user == UserInDB(users, user_create)
       IN  /\ users' = create_user_insert(users, user_create)
           /\ resp' = LoginResponse("google_auth", user_create,
                                    "Google authentication successful", user)
    /\ inflight' = [inflight EXCEPT ![r] = Idle]
    /\ UNCHANGED <<datasets, data_records, plots, nextId, now, bearer>>

LoginRequests == [email : Emails \cup {"c@x"}, password : Passwords]

\* What login and login_form do with the result of authenticate_user.
login_response(op, login_data) ==
    LET user == authenticate_user(users, login_data.email, login_data.password)
    IN  IF user = None
        THEN Response(op, login_data, 401, "Incorrect email or password", None)
        ELSE LoginResponse(op, login_data, "Login successful", user)

\* POST /login
login(login_data) ==
    /\ resp' = login_response("login", login_data)
    /\ UNCHANGED <<users, datasets, data_records, plots, nextId, now, bearer, inflight>>

\* POST /login-form (form_data.username carries the email)
login_form(form_data) ==
    /\ resp' = login_response("login_form", form_data)
    /\ UNCHANGED <<users, datasets, data_records, plots, nextId, now, bearer, inflight>>

(***************************************************************************)
(* SpecUsers: registration, Google sign-in and login, with register and    *)
(* google_auth suspended at each storage call of create_user.              *)
(***************************************************************************)
InitUsers ==
    /\ users = <<>>
    /\ datasets = {}
    /\ data_records = {}
    /\ plots = {}
    /\ nextId = 1
    /\ now = 0
    /\ bearer = None
    /\ inflight = [r \in Reqs |-> Idle]
    /\ resp = NoResponse

NextUsers ==
    \/ \E r \in Reqs, user_create \in UserCreates : register(r, user_create)
    \/ \E r \in Reqs : register_insert(r)
    \/ \E r \in Reqs, google_data \in GoogleAuthRequests : google_auth(r, google_data)
    \/ \E r \in Reqs : google_create(r)
    \/ \E r \in Reqs : google_insert(r)
    \/ \E login_data \in LoginRequests : login(login_data)
    \/ \E form_data \in LoginRequests : login_form(form_data)

SpecUsers == InitUsers /\ [][NextUsers]_vars


(***************************************************************************)
(* OAuth Bridge (app/services/google_oauth_service.py).  What the identity *)
(* provider answers is an input: `idp` holds the outcome of the tokeninfo  *)
(* call, of the userinfo call and of the library's id-token verification.  *)
(***************************************************************************)
\* Every token taken for a local one.
MutIsGooglePrefixNever(token) == FALSE

\* token.startswith('ya29.') or token.startswith('1//')
is_google_prefix(token) == token.prefix \in {"ya29.", "1//"}

\* token_info['expires_in']: missing, not a number, or a number.
ExpiresIn ==
    {[present |-> FALSE, numeric |-> FALSE, value |-> 0],
     [present |-> TRUE, numeric |-> FALSE, value |-> 0],
     [present |-> TRUE, numeric |-> TRUE, value |-> -1],
     [present |-> TRUE, numeric |-> TRUE, value |-> 0],
     [present |-> TRUE, numeric |-> TRUE, value |-> 3599]}

\* client.get(tokeninfo): times out, fails otherwise (network, body that is not
\* JSON), or answers with a status, an expires_in and the token's audience.
TokenInfoOutcomes ==
    {[outcome |-> "timeout", status_code |-> 0, expires_in |-> e, audience |-> "this-client"] :
        e \in {[present |-> FALSE, numeric |-> FALSE, value |-> 0]}}
    \cup {[outcome |-> "error", status_code |-> 0, expires_in |-> e, audience |-> "this-client"] :
        e \in {[present |-> FALSE, numeric |-> FALSE, value |-> 0]}}
    \cup [outcome : {"response"}, status_code : {200, 400}, expires_in : ExpiresIn,
          audience : {"this-client", "other-client"}]

IdpEmails == {"a@x", "c@x", NoneStr}

\* client.get(userinfo): the same outcomes, with the account's email if any.
UserInfoOutcomes ==
    [outcome : {"timeout", "error"}, status_code : {0}, email : {NoneStr}]
    \cup [outcome : {"response"}, status_code : {200, 401}, email : IdpEmails]

\* id_token.verify_oauth2_token: raises, or returns the token's claims.
IdInfoOutcomes ==
    [outcome : {"raise"}, aud : {"this-client"}, email : {NoneStr}]
    \cup [outcome : {"claims"}, aud : {"this-client", "other-client"}, email : IdpEmails]

IdpOutcomes == [tokeninfo : TokenInfoOutcomes, userinfo : UserInfoOutcomes, idinfo : IdInfoOutcomes]

Identity(email) == [email |-> email, name |-> "n", google_id |-> "g"]

Returned(value) == [exc |-> "none", value |-> value]
Raised(exc) == [exc |-> exc, value |-> None]

\* The body of the try block: what it returns, or the exception it raises.
verify_google_token_try(token, idp) ==
    IF is_google_prefix(token)
    THEN LET token_info == idp.tokeninfo
             user_info == idp.userinfo
         IN  IF token_info.outcome = "timeout" THEN Raised("TimeoutException")
             ELSE IF token_info.outcome = "error" THEN Raised("Exception")
             ELSE IF token_info.status_code # 200 THEN Returned(None)
             ELSE IF token_info.expires_in.present /\ ~token_info.expires_in.numeric
                  THEN Raised("Exception")      \* int(...) raises ValueError
             ELSE IF token_info.expires_in.present /\ token_info.expires_in.value <= 0
                  THEN Returned(None)
             ELSE IF user_info.outcome = "timeout" THEN Raised("TimeoutException")
             ELSE IF user_info.outcome = "error" THEN Raised("Exception")
             ELSE IF user_info.status_code # 200 THEN Returned(None)
             ELSE Returned(Identity(user_info.email))
    ELSE LET idinfo == idp.idinfo
         IN  IF idinfo.outcome = "raise" THEN Raised("Exception")
             ELSE IF idinfo.aud # "this-client" THEN Raised("Exception")  \* ValueError('Invalid audience')
             ELSE Returned(Identity(idinfo.email))

\* A version that handles only the timeout.
MutVerifyGoogleTokenTimeoutOnly(token, idp) ==
    LET r == verify_google_token_try(token, idp)
    IN  IF r.exc = "TimeoutException" THEN [raise |-> FALSE, value |-> None]
        ELSE [raise |-> r.exc # "none", value |-> r.value]

\* verify_google_token: the try block under its two except clauses.
verify_google_token(token, idp) ==
    LET r == verify_google_token_try(token, idp)
    IN  IF r.exc = "none" THEN [raise |-> FALSE, value |-> r.value]
        ELSE IF r.exc = "TimeoutException" THEN [raise |-> FALSE, value |-> None]
        ELSE [raise |-> FALSE, value |-> None]      \* except Exception

(***************************************************************************)
(* Request Authenticator (app/api/deps.py).  The result carries the users  *)
(* collection as the dependency leaves it.                                 *)
(***************************************************************************)
Authenticated(user, us) == [status |-> 200, detail |-> "", user |-> user, users |-> us]
Unauthorized(detail, us) == [status |-> 401, detail |-> detail, user |-> None, users |-> us]

\* The external path with account creation on first sight, as google_auth does.
MutGetCurrentUserAutoProvision(token, idp, us, t) ==
    LET user_info == verify_google_token(token, idp)
    IN  IF is_google_prefix(token) /\ ~user_info.raise /\ user_info.value # None
           /\ user_info.value.email # NoneStr
           /\ get_user_by_email(us, user_info.value.email) = None
        THEN LET user_create == [email |-> user_info.value.email, username |-> "g",
                                 password |-> "google_oauth_user"]
             IN  Authenticated(UserInDB(us, user_create), create_user_insert(us, user_create))
        ELSE Unauthorized("Could not validate credentials", us)

get_current_user(token, idp, us, t) ==
    IF is_google_prefix(token)
    THEN LET user_info == verify_google_token(token, idp)
         IN  IF user_info.raise
             THEN Unauthorized("Could not validate credentials", us)  \* except Exception
             ELSE IF user_info.value = None
             THEN Unauthorized("Invalid or expired Google token", us)
             ELSE IF user_info.value.email \in {NoneStr, ""}
             THEN Unauthorized("No email found in Google token", us)
             ELSE LET user == get_user_by_email(us, user_info.value.email)
                  IN  IF user = None
                      THEN Unauthorized("User not found. Please register first.", us)
                      ELSE Authenticated(user, us)
    ELSE LET payload == verify_token(token, t)
         IN  IF payload.raise
             THEN Unauthorized("Could not validate credentials", us)
             ELSE IF payload.sub = NoneStr
             THEN Unauthorized("Could not validate credentials", us)
             ELSE LET user == get_user_by_email(us, payload.sub)
                  IN  IF user = None
                      THEN Unauthorized("User not found", us)
                      ELSE Authenticated(user, us)

\* The gate left out.
MutGetCurrentActiveUserNoGate(token, idp, us, t) == get_current_user(token, idp, us, t)

get_current_active_user(token, idp, us, t) ==
    LET current_user == get_current_user(token, idp, us, t)
    IN  IF current_user.status # 200 THEN current_user
        ELSE IF ~current_user.user.is_active
        THEN [status |-> 400, detail |-> "Inactive user", user |-> None,
              users |-> current_user.users]
        ELSE current_user

(***************************************************************************)
(* SpecBridge: verify_google_token applied to every outcome of the         *)
(* identity provider's calls.                                              *)
(***************************************************************************)
ExternalToken(prefix) == [prefix |-> prefix, signed |-> FALSE, sub |-> NoneStr, exp |-> 0]

\* Opaque access tokens (ya29., 1//) and a signed Google identity token.
BridgeTokens == {ExternalToken("ya29."), ExternalToken("1//"), ExternalToken("eyJ")}

\* The call whose arguments the pending request holds.
verify_google_token_call ==
    /\ resp.op = "verify_google_token"
    /\ resp.detail = "pending"
    /\ resp' = [resp EXCEPT !.detail = "returned",
                            !.body = verify_google_token(resp.req.token, resp.req.idp)]
    /\ UNCHANGED <<users, datasets, data_records, plots, nextId, now, bearer, inflight>>

InitBridge ==
    /\ users = <<>>
    /\ datasets = {}
    /\ data_records = {}
    /\ plots = {}
    /\ nextId = 1
    /\ now = 0
    /\ bearer = None
    /\ inflight = [r \in Reqs |-> Idle]
    /\ \E token \in BridgeTokens, idp \in IdpOutcomes :
         resp = Response("verify_google_token", [token |-> token, idp |-> idp], 0,
                         "pending", None)

NextBridge == verify_google_token_call

SpecBridge == InitBridge /\ [][NextBridge]_vars

(***************************************************************************)
(* SpecSession: registration and login issue tokens, the client keeps one, *)
(* time passes, and POST /test-auth presents a bearer token to the Request *)
(* Authenticator.  One registration is in flight at a time here; SpecUsers *)
(* has the concurrent ones.                                                *)
(***************************************************************************)
\* The client keeps the token of the response it just received.
keep_token ==
    /\ resp.op \in {"register", "login", "login_form", "google_auth"}
    /\ resp.status = 200
    /\ bearer' = resp.body.token
    /\ UNCHANGED <<users, datasets, data_records, plots, nextId, now, inflight, resp>>

tick ==
    /\ now < MaxTime
    /\ now' = now + 1
    /\ UNCHANGED <<users, datasets, data_records, plots, nextId, bearer, inflight, resp>>

\* A token that was not signed with the process key.
ForgedToken == [prefix |-> "eyJ", signed |-> FALSE, sub |-> "a@x", exp |-> MaxTime + 1]

PresentedTokens ==
    (IF bearer = None THEN {} ELSE {bearer})
    \cup {ForgedToken, ExternalToken("ya29."), ExternalToken("1//")}

\* The identity provider's answers tried against the Request Authenticator:
\* tokeninfo times out or answers 400, or it answers 200 and userinfo times
\* out, answers 401, or answers 200 with each email or none.
NoExpiresIn == [present |-> FALSE, numeric |-> FALSE, value |-> 0]

IdpAnswer(tokeninfo_outcome, tokeninfo_status, userinfo_outcome, userinfo_status, email) ==
    [tokeninfo |-> [outcome |-> tokeninfo_outcome, status_code |-> tokeninfo_status,
                    expires_in |-> NoExpiresIn, audience |-> "this-client"],
     userinfo |-> [outcome |-> userinfo_outcome, status_code |-> userinfo_status,
                   email |-> email],
     idinfo |-> [outcome |-> "raise", aud |-> "this-client", email |-> NoneStr]]

SessionIdpOutcomes ==
    {IdpAnswer("timeout", 0, "timeout", 0, NoneStr),
     IdpAnswer("response", 400, "timeout", 0, NoneStr),
     IdpAnswer("response", 200, "timeout", 0, NoneStr),
     IdpAnswer("response", 200, "response", 401, NoneStr)}
    \cup {IdpAnswer("response", 200, "response", 200, email) : email \in IdpEmails}

\* The provider is asked only about an external token.
IdpOutcomesFor(token) ==
    IF is_google_prefix(token) THEN SessionIdpOutcomes
    ELSE {IdpAnswer("timeout", 0, "timeout", 0, NoneStr)}

\* POST /test-auth, behind Depends(get_current_active_user).
test_auth(token, idp) ==
    LET current == get_current_active_user(token, idp, users, now)
    IN  /\ users' = current.users
        /\ resp' = IF current.status = 200
                   THEN Response("test_auth", [token |-> token], 200,
                                 "Authentication successful",
                                 [user_id |-> current.user.id,
                                  user_email |-> current.user.email])
                   ELSE Response("test_auth", [token |-> token], current.status,
                                 current.detail, None)
        /\ UNCHANGED <<datasets, data_records, plots, nextId, now, bearer, inflight>>

\* The registrations tried here differ in email and password only.
SessionUserCreates == {user_create \in UserCreates : user_create.username = "u1"}

NextSession ==
    \/ \E user_create \in SessionUserCreates : register(1, user_create)
    \/ register_insert(1)
    \/ \E login_data \in LoginRequests : login(login_data)
    \/ \E form_data \in LoginRequests : login_form(form_data)
    \/ keep_token
    \/ tick
    \/ \E token \in PresentedTokens : \E idp \in IdpOutcomesFor(token) : test_auth(token, idp)

SpecSession == InitUsers /\ [][NextSession]_vars

(***************************************************************************)
(* Dataset Ingestion (app/services/dataset_service.py).                    *)
(*                                                                         *)
(* An uploaded file is its decoded, parsed shape: whether pandas can parse *)
(* it, the header cells and the data rows (each with one cell per header   *)
(* cell).  Cells are text.                                                 *)
(***************************************************************************)
Csv(parses, header, rows) == [parses |-> parses, header |-> header, rows |-> rows]

CsvFiles ==
    {Csv(TRUE, <<"a", "b">>, << <<"x", "1">>, <<"y", "2">> >>),
     Csv(TRUE, <<"a", "a">>, << <<"x", "y">> >>),
     Csv(TRUE, <<"b">>, << >>),
     Csv(FALSE, << >>, << >>)}

\* pandas' name for the k-th repetition of a header cell: "a", "a.1", "a.2", ...
DupName(name, k) ==
    IF k = 0 THEN name
    ELSE IF name = "a" THEN (IF k = 1 THEN "a.1" ELSE "a.2")
    ELSE (IF k = 1 THEN "b.1" ELSE "b.2")

\* df.columns.tolist(): read_csv renames repeated header cells.
df_columns(header) ==
    [i \in 1..Len(header) |->
        DupName(header[i], Cardinality({j \in 1..(i - 1) : header[j] = header[i]}))]

\* row.to_dict() of the i-th data row: column name -> cell.
row_to_dict(csv, i) ==
    LET columns == df_columns(csv.header)
    IN  [c \in {columns[j] : j \in 1..Len(columns)} |->
            csv.rows[i][CHOOSE j \in 1..Len(columns) : columns[j] = c]]

\* Dataset(**dataset_create.model_dump(), user_id=..., columns=..., row_count=len(df), ...)
DatasetDoc(id, user_id, name, csv, file_size) ==
    [id |-> id, user_id |-> user_id, name |-> name,
     columns |-> df_columns(csv.header), row_count |-> Len(csv.rows),
     file_size |-> file_size, file_type |-> "csv"]

\* The records numbered from 1.
MutDataRecordsFromOne(dataset_id, csv) ==
    {[dataset_id |-> dataset_id, data |-> row_to_dict(csv, i), row_index |-> i] :
        i \in 1..Len(csv.rows)}

\* for index, row in df.iterrows(): DataRecord(dataset_id, data=row.to_dict(), row_index=index)
DataRecords(dataset_id, csv) ==
    {[dataset_id |-> dataset_id, data |-> row_to_dict(csv, i), row_index |-> i - 1] :
        i \in 1..Len(csv.rows)}

\* A file that does not parse ingested as what was read of it.
MutCreateDatasetNoParseError(ds, recs, id, user_id, name, csv, file_size) ==
    LET dataset == DatasetDoc(id, user_id, name, csv, file_size)
    IN  [raise |-> FALSE, dataset |-> dataset,
         datasets |-> ds \cup {dataset},
         data_records |-> recs \cup DataRecords(id, csv)]

\* create_dataset: ValueError on a file that does not parse; otherwise the
\* dataset document and the data records it inserts.
DatasetService_create_dataset(ds, recs, id, user_id, name, csv, file_size) ==
    IF ~csv.parses
    THEN [raise |-> TRUE, dataset |-> None, datasets |-> ds, data_records |-> recs]
    ELSE LET dataset == DatasetDoc(id, user_id, name, csv, file_size)
         IN  [raise |-> FALSE, dataset |-> dataset,
              datasets |-> ds \cup {dataset},
              data_records |-> recs \cup DataRecords(id, csv)]

DatasetService_get_user_datasets(ds, user_id) == {d \in ds : d.user_id = user_id}

\* find_one without the owner in the filter.
MutGetDatasetByIdAnyOwner(ds, dataset_id, user_id) ==
    IF \E d \in ds : d.id = dataset_id
    THEN CHOOSE d \in ds : d.id = dataset_id
    ELSE None

\* find_one({"_id": dataset_id, "user_id": user_id})
DatasetService_get_dataset_by_id(ds, dataset_id, user_id) ==
    IF \E d \in ds : d.id = dataset_id /\ d.user_id = user_id
    THEN CHOOSE d \in ds : d.id = dataset_id /\ d.user_id = user_id
    ELSE None

\* cursor.sort("row_index", 1): the documents in ascending row_index.
RECURSIVE sort_by_row_index(_)
sort_by_row_index(docs) ==
    IF docs = {} THEN << >>
    ELSE LET first == CHOOSE d \in docs : \A e \in docs : d.row_index <= e.row_index
         IN  <<first>> \o sort_by_row_index(docs \ {first})

\* cursor.skip(skip).limit(limit) on the sorted documents; limit 0 is no limit.
skip_limit(docs, skip, limit) ==
    LET from == skip + 1
        to == IF limit = 0 \/ skip + limit > Len(docs) THEN Len(docs) ELSE skip + limit
    IN  IF from > to THEN << >> ELSE SubSeq(docs, from, to)

DatasetService_get_dataset_data(ds, recs, dataset_id, user_id, limit, skip) ==
    IF DatasetService_get_dataset_by_id(ds, dataset_id, user_id) = None THEN << >>
    ELSE LET docs == skip_limit(sort_by_row_index({r \in recs : r.dataset_id = dataset_id}),
                                skip, limit)
         IN  [i \in 1..Len(docs) |-> docs[i].data]

\* delete_dataset: False when the caller owns no such dataset; otherwise
\* delete_many on the records, then delete_one on the dataset.
DatasetService_delete_dataset(ds, recs, dataset_id, user_id) ==
    IF DatasetService_get_dataset_by_id(ds, dataset_id, user_id) = None
    THEN [deleted |-> FALSE, datasets |-> ds, data_records |-> recs]
    ELSE [deleted |-> TRUE,
          datasets |-> {d \in ds : ~(d.id = dataset_id /\ d.user_id = user_id)},
          data_records |-> {r \in recs : r.dataset_id # dataset_id}]

(***************************************************************************)
(* Plot storage (app/services/plot_service.py).                            *)
(***************************************************************************)
PlotCreates ==
    [title : {"t"}, plot_type : {"bar"}, x_axis : {"a"}, y_axis : {NoneStr},
     dataset_id : 1..MaxIds]

\* A PlotUpdate is its fields and the set of those the request carried.
PlotUpdate(fields_set, title) ==
    [fields_set |-> fields_set, title |-> title, plot_type |-> NoneStr,
     x_axis |-> NoneStr, y_axis |-> NoneStr]

PlotUpdates == {PlotUpdate({}, NoneStr), PlotUpdate({"title"}, "t2")}

\* Every field of the update written, set by the request or not.
MutApplySetResetsUnset(doc, update) ==
    [f \in DOMAIN doc |-> IF f \in DOMAIN update THEN update[f] ELSE doc[f]]

\* model_dump(exclude_unset=True) applied with $set to one document.
apply_set(doc, update) ==
    [f \in DOMAIN doc |-> IF f \in update.fields_set THEN update[f] ELSE doc[f]]

\* The plot inserted whoever owns the dataset.
MutCreatePlotNoOwnerCheck(ds, ps, id, user_id, plot_create) ==
    LET plot == [id |-> id, user_id |-> user_id,
                 dataset_id |-> plot_create.dataset_id,
                 title |-> plot_create.title, plot_type |-> plot_create.plot_type,
                 x_axis |-> plot_create.x_axis, y_axis |-> plot_create.y_axis]
    IN  [raise |-> FALSE, plot |-> plot, plots |-> ps \cup {plot}]

\* create_plot: ValueError unless the caller owns the dataset.
PlotService_create_plot(ds, ps, id, user_id, plot_create) ==
    IF DatasetService_get_dataset_by_id(ds, plot_create.dataset_id, user_id) = None
    THEN [raise |-> TRUE, plot |-> None, plots |-> ps]
    ELSE LET plot == [id |-> id, user_id |-> user_id,
                      dataset_id |-> plot_create.dataset_id,
                      title |-> plot_create.title, plot_type |-> plot_create.plot_type,
                      x_axis |-> plot_create.x_axis, y_axis |-> plot_create.y_axis]
         IN  [raise |-> FALSE, plot |-> plot, plots |-> ps \cup {plot}]

\* Plot(**doc): title, plot_type and x_axis are required strings.
Plot_validates(doc) ==
    /\ doc.title # NoneStr
    /\ doc.plot_type # NoneStr
    /\ doc.x_axis # NoneStr

PlotService_get_user_plots(ps, user_id) == {p \in ps : p.user_id = user_id}

\* find_one({"_id": plot_id, "user_id": user_id})
PlotService_get_plot_by_id(ps, plot_id, user_id) ==
    IF \E p \in ps : p.id = plot_id /\ p.user_id = user_id
    THEN CHOOSE p \in ps : p.id = plot_id /\ p.user_id = user_id
    ELSE None

\* update_one({"_id", "user_id"}, {"$set": update_data}) when update_data is
\* not empty, then get_plot_by_id.
PlotService_update_plot(ps, plot_id, user_id, plot_update) ==
    LET updated == IF plot_update.fields_set = {} THEN ps
                   ELSE {IF p.id = plot_id /\ p.user_id = user_id
                         THEN apply_set(p, plot_update) ELSE p : p \in ps}
    IN  [plot |-> PlotService_get_plot_by_id(updated, plot_id, user_id),
         plots |-> updated]

\* delete_one({"_id", "user_id"}); deleted_count > 0.
PlotService_delete_plot(ps, plot_id, user_id) ==
    [deleted |-> \E p \in ps : p.id = plot_id /\ p.user_id = user_id,
     plots |-> {p \in ps : ~(p.id = plot_id /\ p.user_id = user_id)}]

(***************************************************************************)
(* User updates (UserService.update_user).  A UserUpdate is its fields and *)
(* the set of those the caller set.                                        *)
(***************************************************************************)
UserUpdates ==
    {[fields_set |-> {}, is_active |-> TRUE]}
    \cup [fields_set : {{"is_active"}}, is_active : BOOLEAN]

update_user_result(us, user_id, user_update) ==
    [i \in 1..Len(us) |->
        IF us[i].id = user_id /\ user_update.fields_set # {}
        THEN apply_set(us[i], user_update) ELSE us[i]]

\* find_one({"_id": user_id})
get_user_by_id(us, user_id) ==
    IF \E i \in 1..Len(us) : us[i].id = user_id
    THEN us[CHOOSE i \in 1..Len(us) : us[i].id = user_id]
    ELSE None

update_user(user_id, user_update) ==
    /\ users' = update_user_result(users, user_id, user_update)
    /\ resp' = Response("update_user", [user_id |-> user_id, user_update |-> user_update],
                        200, "", get_user_by_id(users', user_id))
    /\ UNCHANGED <<datasets, data_records, plots, nextId, now, bearer, inflight>>

(***************************************************************************)
(* The dataset endpoints (app/api/data.py) and the plot endpoints          *)
(* (app/api/plots.py).  Every one of them depends on                       *)
(* get_current_active_user; the identity provider is not reachable from    *)
(* the tokens presented here.                                              *)
(***************************************************************************)
NoIdp == IdpAnswer("timeout", 0, "timeout", 0, NoneStr)

\* ObjectId(id) of a path parameter: 0 stands for a string that is not an
\* ObjectId.
ObjectId(id) == [raise |-> id < 1, value |-> id]

\* The upload limit in bytes.
MaxUploadBytes == 10 * 1024 * 1024

lower(c) == IF c = "C" THEN "c" ELSE IF c = "S" THEN "s" ELSE IF c = "V" THEN "v"
            ELSE IF c = "D" THEN "d" ELSE c

\* No extension check at all.
MutLowerEndswithCsvAnyName(filename) == TRUE

\* filename.lower().endswith('.csv')
lower_endswith_csv(filename) ==
    /\ Len(filename) >= 4
    /\ [i \in 1..4 |-> lower(filename[Len(filename) - 4 + i])] = <<".", "c", "s", "v">>

Upload(filename, size, csv) == [filename |-> filename, size |-> size, csv |-> csv]

CsvName == <<"d", ".", "c", "s", "v">>

Uploads ==
    {Upload(CsvName, 64, csv) : csv \in CsvFiles}
    \cup {Upload(<<"D", ".", "C", "S", "V">>, 64, Csv(TRUE, <<"b">>, << >>)),
          Upload(<<"d", ".", "t", "x", "t">>, 64, Csv(TRUE, <<"b">>, << >>)),
          Upload(<< >>, 64, Csv(TRUE, <<"b">>, << >>)),
          Upload(CsvName, MaxUploadBytes, Csv(TRUE, <<"b">>, << >>)),
          Upload(CsvName, MaxUploadBytes + 1, Csv(TRUE, <<"b">>, << >>))}

\* The response of a request the dependency refused.
Refused(op, req, current) == Response(op, req, current.status, current.detail, None)

\* POST /upload
upload_dataset(token, name, file) ==
    LET req == [token |-> token, name |-> name, file |-> file]
        current == get_current_active_user(token, NoIdp, users, now)
        created == DatasetService_create_dataset(datasets, data_records, nextId,
                                                 current.user.id, name, file.csv, file.size)
    IN  /\ users' = current.users
        /\ IF current.status # 200
           THEN /\ resp' = Refused("upload_dataset", req, current)
                /\ UNCHANGED <<datasets, data_records, nextId>>
           ELSE IF Len(file.filename) = 0
           THEN /\ resp' = Response("upload_dataset", req, 400, "No file provided", None)
                /\ UNCHANGED <<datasets, data_records, nextId>>
           ELSE IF ~lower_endswith_csv(file.filename)
           THEN /\ resp' = Response("upload_dataset", req, 400,
                                    "Only CSV files are supported", None)
                /\ UNCHANGED <<datasets, data_records, nextId>>
           ELSE IF file.size > MaxUploadBytes
           THEN /\ resp' = Response("upload_dataset", req, 400,
                                    "File size too large. Maximum 10MB allowed.", None)
                /\ UNCHANGED <<datasets, data_records, nextId>>
           ELSE IF created.raise
           THEN /\ resp' = Response("upload_dataset", req, 400,
                                    "Error parsing CSV file", None)
                /\ UNCHANGED <<datasets, data_records, nextId>>
           ELSE /\ nextId <= MaxIds
                /\ resp' = Response("upload_dataset", req, 200, "", created.dataset)
                /\ datasets' = created.datasets
                /\ data_records' = created.data_records
                /\ nextId' = nextId + 1
        /\ UNCHANGED <<plots, now, bearer, inflight>>

\* GET /datasets
get_datasets(token) ==
    LET req == [token |-> token]
        current == get_current_active_user(token, NoIdp, users, now)
    IN  /\ users' = current.users
        /\ resp' = IF current.status # 200 THEN Refused("get_datasets", req, current)
                   ELSE Response("get_datasets", req, 200, "",
                                 [items |-> DatasetService_get_user_datasets(
                                                datasets, current.user.id)])
        /\ UNCHANGED <<datasets, data_records, plots, nextId, now, bearer, inflight>>

\* The default of get_dataset's limit parameter.
DefaultLimit == 100

\* GET /datasets/{dataset_id}
get_dataset(token, dataset_id, limit, skip) ==
    LET req == [token |-> token, id |-> dataset_id, limit |-> limit, skip |-> skip]
        current == get_current_active_user(token, NoIdp, users, now)
        dataset == DatasetService_get_dataset_by_id(datasets, dataset_id, current.user.id)
    IN  /\ users' = current.users
        /\ resp' = IF current.status # 200 THEN Refused("get_dataset", req, current)
                   ELSE IF ObjectId(dataset_id).raise
                   THEN Response("get_dataset", req, 400, "Invalid dataset ID format", None)
                   ELSE IF dataset = None
                   THEN Response("get_dataset", req, 404,
                                 "Dataset not found or you don't have access to it", None)
                   ELSE Response("get_dataset", req, 200, "",
                                 [dataset |-> dataset,
                                  sample_data |-> DatasetService_get_dataset_data(
                                      datasets, data_records, dataset_id,
                                      current.user.id, limit, skip)])
        /\ UNCHANGED <<datasets, data_records, plots, nextId, now, bearer, inflight>>

\* DELETE /datasets/{dataset_id}
delete_dataset(token, dataset_id) ==
    LET req == [token |-> token, id |-> dataset_id]
        current == get_current_active_user(token, NoIdp, users, now)
        deleted == DatasetService_delete_dataset(datasets, data_records, dataset_id,
                                                 current.user.id)
    IN  /\ users' = current.users
        /\ IF current.status # 200
           THEN /\ resp' = Refused("delete_dataset", req, current)
                /\ UNCHANGED <<datasets, data_records>>
           ELSE IF ObjectId(dataset_id).raise
           THEN /\ resp' = Response("delete_dataset", req, 400,
                                    "Invalid dataset ID format", None)
                /\ UNCHANGED <<datasets, data_records>>
           ELSE /\ resp' = IF deleted.deleted
                           THEN Response("delete_dataset", req, 200, "",
                                         [message |-> "Dataset deleted successfully"])
                           ELSE Response("delete_dataset", req, 404,
                                    "Dataset not found or you don't have access to it",
                                    None)
                /\ datasets' = deleted.datasets
                /\ data_records' = deleted.data_records
        /\ UNCHANGED <<plots, nextId, now, bearer, inflight>>

\* GET /debug/all-datasets
debug_all_datasets(token) ==
    LET req == [token |-> token]
        current == get_current_active_user(token, NoIdp, users, now)
        all_datasets == {[id |-> doc.id, user_id |-> doc.user_id, name |-> doc.name] :
                            doc \in datasets}
    IN  /\ users' = current.users
        /\ resp' = IF current.status # 200 THEN Refused("debug_all_datasets", req, current)
                   ELSE Response("debug_all_datasets", req, 200, "",
                                 [current_user_id |-> current.user.id,
                                  current_user_email |-> current.user.email,
                                  items |-> all_datasets,
                                  total_datasets |-> Cardinality(all_datasets)])
        /\ UNCHANGED <<datasets, data_records, plots, nextId, now, bearer, inflight>>

\* POST /plots/
create_plot(token, plot_create) ==
    LET req == [token |-> token, plot_create |-> plot_create]
        current == get_current_active_user(token, NoIdp, users, now)
        created == PlotService_create_plot(datasets, plots, nextId, current.user.id,
                                           plot_create)
    IN  /\ users' = current.users
        /\ IF current.status # 200
           THEN /\ resp' = Refused("create_plot", req, current)
                /\ UNCHANGED <<plots, nextId>>
           ELSE IF created.raise
           THEN /\ resp' = Response("create_plot", req, 400,
                                    "Dataset not found or access denied", None)
                /\ UNCHANGED <<plots, nextId>>
           ELSE /\ nextId <= MaxIds
                /\ resp' = Response("create_plot", req, 200, "", created.plot)
                /\ plots' = created.plots
                /\ nextId' = nextId + 1
        /\ UNCHANGED <<datasets, data_records, now, bearer, inflight>>

\* GET /plots/
get_plots(token) ==
    LET req == [token |-> token]
        current == get_current_active_user(token, NoIdp, users, now)
    IN  /\ users' = current.users
        /\ resp' = IF current.status # 200 THEN Refused("get_plots", req, current)
                   ELSE IF \E p \in PlotService_get_user_plots(plots, current.user.id) :
                              ~Plot_validates(p)
                   THEN Response("get_plots", req, 500, "Internal Server Error", None)
                   ELSE Response("get_plots", req, 200, "",
                                 [items |-> PlotService_get_user_plots(
                                                plots, current.user.id)])
        /\ UNCHANGED <<datasets, data_records, plots, nextId, now, bearer, inflight>>

\* GET /plots/{plot_id}
get_plot(token, plot_id) ==
    LET req == [token |-> token, id |-> plot_id]
        current == get_current_active_user(token, NoIdp, users, now)
        plot == PlotService_get_plot_by_id(plots, plot_id, current.user.id)
    IN  /\ users' = current.users
        /\ resp' = IF current.status # 200 THEN Refused("get_plot", req, current)
                   ELSE IF ObjectId(plot_id).raise
                   THEN Response("get_plot", req, 400, "Invalid plot ID", None)
                   ELSE IF plot = None
                   THEN Response("get_plot", req, 404, "Plot not found", None)
                   ELSE IF ~Plot_validates(plot)
                   THEN Response("get_plot", req, 500, "Internal Server Error", None)
                   ELSE Response("get_plot", req, 200, "", plot)
        /\ UNCHANGED <<datasets, data_records, plots, nextId, now, bearer, inflight>>

\* PUT /plots/{plot_id}
update_plot(token, plot_id, plot_update) ==
    LET req == [token |-> token, id |-> plot_id, plot_update |-> plot_update]
        current == get_current_active_user(token, NoIdp, users, now)
        updated == PlotService_update_plot(plots, plot_id, current.user.id, plot_update)
    IN  /\ users' = current.users
        /\ IF current.status # 200
           THEN /\ resp' = Refused("update_plot", req, current)
                /\ UNCHANGED plots
           ELSE IF ObjectId(plot_id).raise
           THEN /\ resp' = Response("update_plot", req, 400, "Invalid plot ID", None)
                /\ UNCHANGED plots
           ELSE /\ resp' = IF updated.plot = None
                           THEN Response("update_plot", req, 404, "Plot not found", None)
                           ELSE IF ~Plot_validates(updated.plot)
                           THEN Response("update_plot", req, 500, "Internal Server Error",
                                         None)
                           ELSE Response("update_plot", req, 200, "", updated.plot)
                /\ plots' = updated.plots
        /\ UNCHANGED <<datasets, data_records, nextId, now, bearer, inflight>>

\* DELETE /plots/{plot_id}
delete_plot(token, plot_id) ==
    LET req == [token |-> token, id |-> plot_id]
        current == get_current_active_user(token, NoIdp, users, now)
        deleted == PlotService_delete_plot(plots, plot_id, current.user.id)
    IN  /\ users' = current.users
        /\ IF current.status # 200
           THEN /\ resp' = Refused("delete_plot", req, current)
                /\ UNCHANGED plots
           ELSE IF ObjectId(plot_id).raise
           THEN /\ resp' = Response("delete_plot", req, 400, "Invalid plot ID", None)
                /\ UNCHANGED plots
           ELSE /\ resp' = IF deleted.deleted
                           THEN Response("delete_plot", req, 200, "",
                                         [message |-> "Plot deleted successfully"])
                           ELSE Response("delete_plot", req, 404, "Plot not found", None)
                /\ plots' = deleted.plots
        /\ UNCHANGED <<datasets, data_records, nextId, now, bearer, inflight>>

(***************************************************************************)
(* SpecAccess: two registered users, each holding a valid access token,    *)
(* against the dataset and plot endpoints; either user may be deactivated  *)
(* and reactivated.                                                        *)
(***************************************************************************)
RegisteredUsers ==
    <<UserInDB(<< >>, [email |-> "a@x", username |-> "u1", password |-> "pw1"]),
      [UserInDB(<< >>, [email |-> "b@x", username |-> "u2", password |-> "pw2"])
          EXCEPT !.id = 2]>>

DataTokens == {create_access_token(email, TokenLifetime, 0) : email \in Emails}

RequestIds == 0..(MaxIds + 1)

InitData ==
    /\ users = RegisteredUsers
    /\ datasets = {}
    /\ data_records = {}
    /\ plots = {}
    /\ nextId = 1
    /\ now = 0
    /\ bearer = None
    /\ inflight = [r \in Reqs |-> Idle]
    /\ resp = NoResponse

\* One file that is ingested and one that is refused.
AccessUploads ==
    {Upload(CsvName, 64, Csv(TRUE, <<"a", "b">>, << <<"x", "1">>, <<"y", "2">> >>)),
     Upload(<<"d", ".", "t", "x", "t">>, 64, Csv(TRUE, <<"b">>, << >>))}

NextAccess ==
    \/ \E user_id \in 1..(MaxUsers + 1) : \E user_update \in UserUpdates :
           update_user(user_id, user_update)
    \/ \E token \in DataTokens : \E file \in AccessUploads :
           upload_dataset(token, "n", file)
    \/ \E token \in DataTokens : get_datasets(token)
    \/ \E token \in DataTokens : \E dataset_id \in RequestIds :
           get_dataset(token, dataset_id, DefaultLimit, 0)
    \/ \E token \in DataTokens : \E dataset_id \in RequestIds :
           delete_dataset(token, dataset_id)
    \/ \E token \in DataTokens : debug_all_datasets(token)
    \/ \E token \in DataTokens : \E plot_create \in PlotCreates :
           create_plot(token, plot_create)
    \/ \E token \in DataTokens : get_plots(token)
    \/ \E token \in DataTokens : \E plot_id \in RequestIds : get_plot(token, plot_id)
    \/ \E token \in DataTokens : \E plot_id \in RequestIds :
           \E plot_update \in PlotUpdates : update_plot(token, plot_id, plot_update)
    \/ \E token \in DataTokens : \E plot_id \in RequestIds : delete_plot(token, plot_id)

SpecAccess == InitData /\ [][NextAccess]_vars

(***************************************************************************)
(* SpecIngest: the same users uploading every file of Uploads and reading  *)
(* the rows back page by page.                                             *)
(***************************************************************************)
Pages == {[limit |-> DefaultLimit, skip |-> 0], [limit |-> 1, skip |-> 1],
          [limit |-> 0, skip |-> 0]}

NextIngest ==
    \/ \E token \in DataTokens : \E file \in Uploads : upload_dataset(token, "n", file)
    \/ \E token \in DataTokens : get_datasets(token)
    \/ \E token \in DataTokens : \E dataset_id \in RequestIds : \E page \in Pages :
           get_dataset(token, dataset_id, page.limit, page.skip)
    \/ \E token \in DataTokens : \E dataset_id \in RequestIds :
           delete_dataset(token, dataset_id)

SpecIngest == InitData /\ [][NextIngest]_vars

(***************************************************************************)
(* SpecDelete: upload and delete as the storage calls they await, with     *)
(* MaxReqs requests in flight.  create_dataset awaits insert_one and then  *)
(* insert_many; delete_dataset awaits get_dataset_by_id, delete_many and   *)
(* delete_one.  Another request may run between any two of them.           *)
(***************************************************************************)
\* The records left by the mutation that deletes none.
MutDeleteManyNothing(recs, dataset_id) == recs

\* data_records_collection.delete_many({"dataset_id": dataset_id})
delete_many(recs, dataset_id) == {r \in recs : r.dataset_id # dataset_id}

\* datasets_collection.delete_one({"_id": dataset_id, "user_id": user_id})
delete_one(ds, dataset_id, user_id) ==
    [deleted_count |-> Cardinality({d \in ds : d.id = dataset_id /\ d.user_id = user_id}),
     datasets |-> {d \in ds : ~(d.id = dataset_id /\ d.user_id = user_id)}]

SlotIdle(r) == inflight[r].pc = "idle"

DeleteUpload == Upload(CsvName, 64, Csv(TRUE, <<"a", "b">>, << <<"x", "1">>, <<"y", "2">> >>))

\* POST /upload up to create_dataset's insert_one.
upload_insert_one(r, token, name, file) ==
    LET current == get_current_active_user(token, NoIdp, users, now)
        dataset == DatasetDoc(nextId, current.user.id, name, file.csv, file.size)
    IN  /\ SlotIdle(r)
        /\ current.status = 200
        /\ Len(file.filename) > 0 /\ lower_endswith_csv(file.filename)
        /\ file.size <= MaxUploadBytes
        /\ file.csv.parses
        /\ nextId <= MaxIds
        /\ datasets' = datasets \cup {dataset}
        /\ nextId' = nextId + 1
        /\ inflight' = [inflight EXCEPT ![r] =
               [pc |-> "insert_many", token |-> token, name |-> name, file |-> file,
                dataset |-> dataset]]
        /\ UNCHANGED <<users, data_records, plots, now, bearer, resp>>

\* POST /upload from create_dataset's insert_many.
upload_insert_many(r) ==
    /\ inflight[r].pc = "insert_many"
    /\ data_records' = data_records
                       \cup DataRecords(inflight[r].dataset.id, inflight[r].file.csv)
    /\ resp' = Response("upload_dataset",
                        [token |-> inflight[r].token, name |-> inflight[r].name,
                         file |-> inflight[r].file],
                        200, "", inflight[r].dataset)
    /\ inflight' = [inflight EXCEPT ![r] = Idle]
    /\ UNCHANGED <<users, datasets, plots, nextId, now, bearer>>

\* DELETE /datasets/{dataset_id} up to delete_dataset's get_dataset_by_id.
delete_dataset_check(r, token, dataset_id) ==
    LET req == [token |-> token, id |-> dataset_id]
        current == get_current_active_user(token, NoIdp, users, now)
        dataset == DatasetService_get_dataset_by_id(datasets, dataset_id, current.user.id)
    IN  /\ SlotIdle(r)
        /\ IF current.status # 200
           THEN /\ resp' = Refused("delete_dataset", req, current)
                /\ UNCHANGED inflight
           ELSE IF ObjectId(dataset_id).raise
           THEN /\ resp' = Response("delete_dataset", req, 400,
                                    "Invalid dataset ID format", None)
                /\ UNCHANGED inflight
           ELSE IF dataset = None
           THEN /\ resp' = Response("delete_dataset", req, 404,
                                    "Dataset not found or you don't have access to it",
                                    None)
                /\ UNCHANGED inflight
           ELSE /\ inflight' = [inflight EXCEPT ![r] =
                       [pc |-> "delete_many", token |-> token, dataset_id |-> dataset_id,
                        user_id |-> current.user.id, deleted |-> {}]]
                /\ UNCHANGED resp
        /\ UNCHANGED <<users, datasets, data_records, plots, nextId, now, bearer>>

\* delete_dataset's delete_many.
delete_dataset_many(r) ==
    /\ inflight[r].pc = "delete_many"
    /\ data_records' = delete_many(data_records, inflight[r].dataset_id)
    /\ inflight' = [inflight EXCEPT ![r].pc = "delete_one",
                                    ![r].deleted = data_records \ data_records']
    /\ UNCHANGED <<users, datasets, plots, nextId, now, bearer, resp>>

\* delete_dataset's delete_one and the endpoint's answer.
delete_dataset_one(r) ==
    LET req == [token |-> inflight[r].token, id |-> inflight[r].dataset_id]
        result == delete_one(datasets, inflight[r].dataset_id, inflight[r].user_id)
    IN  /\ inflight[r].pc = "delete_one"
        /\ datasets' = result.datasets
        /\ resp' = IF result.deleted_count > 0
                   THEN Response("delete_dataset", req, 200, "",
                                 [message |-> "Dataset deleted successfully"])
                   ELSE Response("delete_dataset", req, 404,
                                 "Dataset not found or you don't have access to it", None)
        /\ inflight' = [inflight EXCEPT ![r] = Idle]
        /\ UNCHANGED <<users, data_records, plots, nextId, now, bearer>>

NextDelete ==
    \/ \E token \in DataTokens : upload_insert_one(1, token, "n", DeleteUpload)
    \/ upload_insert_many(1)
    \/ \E r \in Reqs : \E token \in DataTokens : \E dataset_id \in 1..MaxIds :
           delete_dataset_check(r, token, dataset_id)
    \/ \E r \in Reqs : delete_dataset_many(r)
    \/ \E r \in Reqs : delete_dataset_one(r)

SpecDelete == InitData /\ [][NextDelete]_vars

(***************************************************************************)
(* Plot Renderer: PlotService.generate_plot_data (persisted plots) and the *)
(* generate_plot endpoint (ad-hoc).  A figure is its kind and the values   *)
(* of its x and y traces.                                                  *)
(***************************************************************************)
\* The number of rows both render paths read.
RenderLimit == 10000

\* pd.DataFrame(data).columns
df_data_columns(data) == UNION {DOMAIN data[i] : i \in 1..Len(data)}

\* df[column] as a sequence of cells.
df_column(data, column) == [i \in 1..Len(data) |-> data[i][column]]

\* df.index of a frame built from a list of rows.
df_index(data) == [i \in 1..Len(data) |-> i - 1]

\* How often the value occurs in the cells.
count_of(cells, value) == Cardinality({i \in 1..Len(cells) : cells[i] = value})

\* Every value counted as if it occurred once.
MutValueCountsAllOnes(cells) ==
    LET values == {cells[i] : i \in 1..Len(cells)}
        order == CHOOSE seq \in [1..Cardinality(values) -> values] :
                     \A v \in values : \E k \in DOMAIN seq : seq[k] = v
    IN  [index |-> order, values |-> [k \in DOMAIN order |-> 1]]

\* Series.value_counts(): the distinct values with their counts, the most
\* frequent first.
value_counts(cells) ==
    LET values == {cells[i] : i \in 1..Len(cells)}
        order == CHOOSE seq \in [1..Cardinality(values) -> values] :
                     /\ \A v \in values : \E k \in DOMAIN seq : seq[k] = v
                     /\ \A k, l \in DOMAIN seq :
                           k < l => count_of(cells, seq[k]) >= count_of(cells, seq[l])
    IN  [index |-> order, values |-> [k \in DOMAIN order |-> count_of(cells, order[k])]]

Figure(kind, x, y) == [kind |-> kind, x |-> x, y |-> y]

\* str(e): the text of an exception.
str(e) == e.text

\* What plotly express raises for a column name the frame does not have.
PlotlyValueError ==
    [cls |-> "ValueError",
     text |-> "Value of 'x' is not the name of a column in 'data_frame'"]

Rendered(fig) == [error |-> "none", fig |-> fig]

RenderError(error) == [error |-> error, fig |-> None]

\* plotly express given a column name: ValueError when the frame has no such
\* column.
px(kind, data, x, y) ==
    IF x.column /\ x.name \notin df_data_columns(data) THEN RenderError("ValueError")
    ELSE IF y.column /\ y.name \notin df_data_columns(data) THEN RenderError("ValueError")
    ELSE Rendered(Figure(kind,
                         IF x.column THEN df_column(data, x.name) ELSE x.cells,
                         IF y.column THEN df_column(data, y.name) ELSE y.cells))

Column(name) == [column |-> TRUE, name |-> name, cells |-> << >>]

Cells(cells) == [column |-> FALSE, name |-> NoneStr, cells |-> cells]

\* generate_plot_data's dispatch on plot.plot_type (lines 88-119).
generate_plot_data_figure(plot, data) ==
    LET y_valid == plot.y_axis # NoneStr /\ plot.y_axis \in df_data_columns(data)
    IN  IF plot.plot_type \in {"scatter", "line"}
        THEN px(plot.plot_type, data, Column(plot.x_axis),
                IF y_valid THEN Column(plot.y_axis) ELSE Cells(df_index(data)))
        ELSE IF plot.plot_type = "bar"
        THEN IF y_valid THEN px("bar", data, Column(plot.x_axis), Column(plot.y_axis))
             ELSE IF plot.x_axis \notin df_data_columns(data) THEN RenderError("KeyError")
             ELSE LET counts == value_counts(df_column(data, plot.x_axis))
                  IN  px("bar", data, Cells(counts.index), Cells(counts.values))
        ELSE IF plot.plot_type = "histogram"
        THEN px("histogram", data, Column(plot.x_axis), Cells(<< >>))
        ELSE IF plot.plot_type = "box"
        THEN IF y_valid THEN px("box", data, Column(plot.x_axis), Column(plot.y_axis))
             ELSE px("box", data, Cells(<< >>), Column(plot.x_axis))
        ELSE RenderError("Unsupported plot type")

\* generate_plot_data: ValueError for a plot the caller does not own and for
\* a plot without rows, then the dispatch.
PlotService_generate_plot_data(ds, recs, ps, plot_id, user_id) ==
    LET plot == PlotService_get_plot_by_id(ps, plot_id, user_id)
        data == DatasetService_get_dataset_data(ds, recs, plot.dataset_id, user_id,
                                                RenderLimit, 0)
    IN  IF plot = None THEN RenderError("Plot not found")
        ELSE IF data = << >> THEN RenderError("No data found for plot")
        ELSE generate_plot_data_figure(plot, data)

\* generate_plot's dispatch on plot_request.plotType (lines 75-104).
generate_plot_figure(plot_request, data) ==
    IF plot_request.plotType \in {"scatter", "line"}
    THEN px(plot_request.plotType, data, Column(plot_request.xAxis),
            IF plot_request.yAxis # NoneStr THEN Column(plot_request.yAxis)
            ELSE Cells(df_index(data)))
    ELSE IF plot_request.plotType = "bar"
    THEN IF plot_request.yAxis # NoneStr
         THEN px("bar", data, Column(plot_request.xAxis), Column(plot_request.yAxis))
         ELSE LET counts == value_counts(df_column(data, plot_request.xAxis))
              IN  px("bar", data, Cells(counts.index), Cells(counts.values))
    ELSE IF plot_request.plotType = "histogram"
    THEN px("histogram", data, Column(plot_request.xAxis), Cells(<< >>))
    ELSE RenderError("Unsupported plot type")

\* generate_plot without the two column checks.
MutGeneratePlotNoColumnCheck(token, plot_request) ==
    LET req == [token |-> token, plot_request |-> plot_request]
        current == get_current_active_user(token, NoIdp, users, now)
        dataset == DatasetService_get_dataset_by_id(datasets, plot_request.datasetId,
                                                    current.user.id)
        data == DatasetService_get_dataset_data(datasets, data_records,
                                                plot_request.datasetId, current.user.id,
                                                RenderLimit, 0)
    IN  /\ users' = current.users
        /\ resp' =
             IF current.status # 200 THEN Refused("generate_plot", req, current)
             ELSE IF ObjectId(plot_request.datasetId).raise
             THEN Response("generate_plot", req, 400, "Invalid dataset ID", None)
             ELSE IF dataset = None
             THEN Response("generate_plot", req, 404,
                           "Dataset not found or access denied", None)
             ELSE IF data = << >>
             THEN Response("generate_plot", req, 400, "No data found for plot", None)
             ELSE IF plot_request.plotType \notin {"scatter", "line", "bar", "histogram"}
             THEN Response("generate_plot", req, 400, "Unsupported plot type", None)
             ELSE Response("generate_plot", req, 500,
                           "Failed to generate plot: " \o str(PlotlyValueError), None)
        /\ UNCHANGED <<datasets, data_records, plots, nextId, now, bearer, inflight>>

\* POST /plots/generate
generate_plot(token, plot_request) ==
    LET req == [token |-> token, plot_request |-> plot_request]
        current == get_current_active_user(token, NoIdp, users, now)
        dataset == DatasetService_get_dataset_by_id(datasets, plot_request.datasetId,
                                                    current.user.id)
        data == DatasetService_get_dataset_data(datasets, data_records,
                                                plot_request.datasetId, current.user.id,
                                                RenderLimit, 0)
        rendered == generate_plot_figure(plot_request, data)
    IN  /\ users' = current.users
        /\ resp' =
             IF current.status # 200 THEN Refused("generate_plot", req, current)
             ELSE IF ObjectId(plot_request.datasetId).raise
             THEN Response("generate_plot", req, 400, "Invalid dataset ID", None)
             ELSE IF dataset = None
             THEN Response("generate_plot", req, 404,
                           "Dataset not found or access denied", None)
             ELSE IF data = << >>
             THEN Response("generate_plot", req, 400, "No data found for plot", None)
             ELSE IF plot_request.xAxis \notin df_data_columns(data)
             THEN Response("generate_plot", req, 400, "Column xAxis not found in dataset",
                           None)
             ELSE IF plot_request.yAxis # NoneStr
                     /\ plot_request.yAxis \notin df_data_columns(data)
             THEN Response("generate_plot", req, 400, "Column yAxis not found in dataset",
                           None)
             ELSE IF rendered.error = "Unsupported plot type"
             THEN Response("generate_plot", req, 400, "Unsupported plot type", None)
             ELSE IF rendered.error # "none"
             THEN Response("generate_plot", req, 500,
                           "Failed to generate plot: " \o str(PlotlyValueError), None)
             ELSE Response("generate_plot", req, 200, "",
                           [success |-> TRUE, data |-> rendered.fig,
                            plotType |-> plot_request.plotType,
                            xAxis |-> plot_request.xAxis, yAxis |-> plot_request.yAxis])
        /\ UNCHANGED <<datasets, data_records, plots, nextId, now, bearer, inflight>>

\* GET /plots/{plot_id}/data
get_plot_data(token, plot_id) ==
    LET req == [token |-> token, id |-> plot_id]
        current == get_current_active_user(token, NoIdp, users, now)
        rendered == PlotService_generate_plot_data(datasets, data_records, plots,
                                                   plot_id, current.user.id)
    IN  /\ users' = current.users
        /\ resp' =
             IF current.status # 200 THEN Refused("get_plot_data", req, current)
             ELSE IF ObjectId(plot_id).raise
             THEN Response("get_plot_data", req, 400, "Invalid plot ID", None)
             ELSE IF rendered.error = "none"
             THEN Response("get_plot_data", req, 200, "", [data |-> rendered.fig])
             ELSE IF rendered.error = "KeyError"
             THEN Response("get_plot_data", req, 500, "Internal Server Error", None)
             ELSE IF rendered.error = "ValueError"
             THEN Response("get_plot_data", req, 400, str(PlotlyValueError), None)
             ELSE Response("get_plot_data", req, 400, rendered.error, None)
        /\ UNCHANGED <<datasets, data_records, plots, nextId, now, bearer, inflight>>

(***************************************************************************)
(* SpecRender: user a@x uploads datasets and both users create plots and   *)
(* ask for figures, ad hoc and of persisted plots.                         *)
(***************************************************************************)
PlotTypes == {"scatter", "line", "bar", "histogram", "box", "pie"}

RenderUploads ==
    {Upload(CsvName, 64,
            Csv(TRUE, <<"a", "b">>, << <<"x", "1">>, <<"x", "2">>, <<"y", "1">> >>)),
     Upload(CsvName, 64, Csv(TRUE, <<"a", "b">>, << >>))}

PlotGenerateRequest(datasetId, plotType, xAxis, yAxis) ==
    [datasetId |-> datasetId, plotType |-> plotType, xAxis |-> xAxis, yAxis |-> yAxis]

\* Every type with x = a and y absent or b, and bars over unknown columns.
PlotGenerateRequests ==
    {PlotGenerateRequest(datasetId, plotType, "a", yAxis) :
        datasetId \in RequestIds, plotType \in PlotTypes, yAxis \in {NoneStr, "b"}}
    \cup {PlotGenerateRequest(datasetId, "bar", "zz", NoneStr) : datasetId \in RequestIds}
    \cup {PlotGenerateRequest(datasetId, "bar", "a", "zz") : datasetId \in RequestIds}

\* Bars over a with y absent or unknown, bars over an unknown x, and a pie.
RenderPlotCreates ==
    {[title |-> "t", plot_type |-> axes[1], x_axis |-> axes[2], y_axis |-> axes[3],
      dataset_id |-> dataset_id] :
        axes \in {<<"bar", "a", NoneStr>>, <<"bar", "a", "zz">>, <<"bar", "zz", NoneStr>>,
                  <<"pie", "a", NoneStr>>},
        dataset_id \in 1..MaxIds}

NextRender ==
    \/ \E file \in RenderUploads :
           upload_dataset(create_access_token("a@x", TokenLifetime, 0), "n", file)
    \/ \E token \in DataTokens : \E plot_create \in RenderPlotCreates :
           create_plot(token, plot_create)
    \/ \E token \in DataTokens : \E plot_request \in PlotGenerateRequests :
           generate_plot(token, plot_request)
    \/ \E token \in DataTokens : \E plot_id \in RequestIds : get_plot_data(token, plot_id)

SpecRender == InitData /\ [][NextRender]_vars

(***************************************************************************)
(* Dataset statistics (DatasetService.get_dataset_stats).  A cell is "NaN" *)
(* when the file had no value there; "1" and "2" are the cells pandas      *)
(* reads as numbers.  A statistic is not computed to a number: it is       *)
(* either NaN, the literal 0 of the code's else-branch, or the value of    *)
(* the named pandas reduction over the cells that are present.             *)
(***************************************************************************)
NaNCell == "NaN"

NumberCells == {"1", "2"}

IsPresent(cell) == cell # NaNCell

\* str(df.dtypes[column])
dtype(cells) ==
    IF \E i \in 1..Len(cells) : IsPresent(cells[i]) /\ cells[i] \notin NumberCells
    THEN "object"
    ELSE IF \E i \in 1..Len(cells) : ~IsPresent(cells[i]) THEN "float64"
    ELSE "int64"

\* df.isnull().sum()[column]
isnull_sum(cells) == Cardinality({i \in 1..Len(cells) : ~IsPresent(cells[i])})

Zero == [nan |-> FALSE, of |-> "0", cells |-> << >>]

\* float(df[col].<reduction>()): NaN when too few cells are present (std needs
\* two, the others one).
reduction(name, cells) ==
    LET present == SelectSeq(cells, IsPresent)
    IN  IF Len(present) < (IF name = "std" THEN 2 ELSE 1)
        THEN [nan |-> TRUE, of |-> name, cells |-> << >>]
        ELSE [nan |-> FALSE, of |-> name, cells |-> present]

\* float(df[col].<reduction>()) if not df[col].empty else 0
statistic(name, cells) == IF Len(cells) # 0 THEN reduction(name, cells) ELSE Zero

StatNames == {"mean", "std", "min", "max", "median"}

\* get_dataset_stats: None for a dataset the caller does not own and for one
\* without rows.
DatasetService_get_dataset_stats(ds, recs, dataset_id, user_id) ==
    LET data == DatasetService_get_dataset_data(ds, recs, dataset_id, user_id,
                                                RenderLimit, 0)
        columns == df_data_columns(data)
        numeric_columns == {c \in columns : dtype(df_column(data, c)) # "object"}
    IN  IF DatasetService_get_dataset_by_id(ds, dataset_id, user_id) = None THEN None
        ELSE IF data = << >> THEN None
        ELSE [total_rows |-> Len(data),
              total_columns |-> Cardinality(columns),
              column_types |-> [c \in columns |-> dtype(df_column(data, c))],
              missing_values |-> [c \in columns |-> isnull_sum(df_column(data, c))],
              summary_stats |->
                  [c \in numeric_columns |->
                      [name \in StatNames |-> statistic(name, df_column(data, c))]]]

\* Whether the statistics hold a NaN, which the JSON encoder may refuse.
HasNaN(stats) ==
    \E c \in DOMAIN stats.summary_stats : \E name \in StatNames :
        stats.summary_stats[c][name].nan

\* GET /datasets/{dataset_id}/stats.  A response holding NaN is either
\* encoded or refused by the encoder with a 500.
get_dataset_stats(token, dataset_id, encoded) ==
    LET req == [token |-> token, id |-> dataset_id]
        current == get_current_active_user(token, NoIdp, users, now)
        stats == DatasetService_get_dataset_stats(datasets, data_records, dataset_id,
                                                  current.user.id)
    IN  /\ users' = current.users
        /\ resp' = IF current.status # 200 THEN Refused("get_dataset_stats", req, current)
                   ELSE IF ObjectId(dataset_id).raise
                   THEN Response("get_dataset_stats", req, 400,
                                 "Invalid dataset ID format", None)
                   ELSE IF stats = None
                   THEN Response("get_dataset_stats", req, 404,
                                 "Dataset not found or you don't have access to it", None)
                   ELSE IF HasNaN(stats) /\ ~encoded
                   THEN Response("get_dataset_stats", req, 500, "Internal Server Error",
                                 None)
                   ELSE Response("get_dataset_stats", req, 200, "", stats)
        /\ UNCHANGED <<datasets, data_records, plots, nextId, now, bearer, inflight>>

(***************************************************************************)
(* SpecStats: uploads with full, partly missing and all-missing numeric    *)
(* columns, and their statistics.                                          *)
(***************************************************************************)
StatsUploads ==
    {Upload(CsvName, 64, Csv(TRUE, <<"a", "b">>, << <<"x", NaNCell>>, <<"y", NaNCell>> >>)),
     Upload(CsvName, 64, Csv(TRUE, <<"a", "b">>, << <<"x", "1">>, <<NaNCell, "2">> >>)),
     Upload(CsvName, 64, Csv(TRUE, <<"a", "b">>, << <<"1", "2">>, <<"2", NaNCell>> >>)),
     Upload(CsvName, 64, Csv(TRUE, <<"a", "b">>, << >>))}

NextStats ==
    \/ \E token \in DataTokens : \E file \in StatsUploads : upload_dataset(token, "n", file)
    \/ \E token \in DataTokens : \E dataset_id \in RequestIds : \E encoded \in BOOLEAN :
           get_dataset_stats(token, dataset_id, encoded)
    \/ \E token \in DataTokens : \E dataset_id \in RequestIds :
           delete_dataset(token, dataset_id)

SpecStats == InitData /\ [][NextStats]_vars

(***************************************************************************)
(* SpecFaults: uploads, plots and figures, and the six handlers that catch  *)
(* exceptions when a storage call of theirs raises.  The exception is an   *)
(* input; it is raised by the handler's first awaited storage call, so     *)
(* nothing has been written when the handler answers.                      *)
(***************************************************************************)
PyMongoError ==
    [cls |-> "PyMongoError", text |-> "db:27017: [Errno 111] Connection refused"]

Exceptions == {PyMongoError}

\* except ValueError
isinstance_ValueError(e) == e.cls = "ValueError"

\* register: except ValueError -> 400 str(e); except Exception -> 500.
register_raises(user_create, e) ==
    /\ resp' = IF isinstance_ValueError(e)
               THEN Response("register", user_create, 400, str(e), None)
               ELSE Response("register", user_create, 500, "Internal server error", None)
    /\ UNCHANGED <<users, datasets, data_records, plots, nextId, now, bearer, inflight>>

\* login: except Exception -> 500.
login_raises(login_data, e) ==
    /\ resp' = Response("login", login_data, 500, "Internal server error", None)
    /\ UNCHANGED <<users, datasets, data_records, plots, nextId, now, bearer, inflight>>

\* google_auth: except Exception -> 500.
google_auth_raises(google_data, e) ==
    /\ resp' = Response("google_auth", google_data, 500, "Google authentication failed",
                        None)
    /\ UNCHANGED <<users, datasets, data_records, plots, nextId, now, bearer, inflight>>

\* upload_dataset, the preconditions passed and the file parsed: except
\* ValueError -> 400 str(e); except Exception -> 500.
upload_dataset_raises(token, name, file, e) ==
    LET req == [token |-> token, name |-> name, file |-> file]
        current == get_current_active_user(token, NoIdp, users, now)
    IN  /\ Len(file.filename) # 0
        /\ lower_endswith_csv(file.filename)
        /\ file.size <= MaxUploadBytes
        /\ file.csv.parses
        /\ users' = current.users
        /\ resp' = IF current.status # 200 THEN Refused("upload_dataset", req, current)
                   ELSE IF isinstance_ValueError(e)
                   THEN Response("upload_dataset", req, 400, str(e), None)
                   ELSE Response("upload_dataset", req, 500, "Failed to process dataset",
                                 None)
        /\ UNCHANGED <<datasets, data_records, plots, nextId, now, bearer, inflight>>

\* generate_plot: except Exception -> 500 with the exception's text.
generate_plot_raises(token, plot_request, e) ==
    LET req == [token |-> token, plot_request |-> plot_request]
        current == get_current_active_user(token, NoIdp, users, now)
    IN  /\ ~ObjectId(plot_request.datasetId).raise
        /\ users' = current.users
        /\ resp' = IF current.status # 200 THEN Refused("generate_plot", req, current)
                   ELSE Response("generate_plot", req, 500,
                                 "Failed to generate plot: " \o str(e), None)
        /\ UNCHANGED <<datasets, data_records, plots, nextId, now, bearer, inflight>>

\* get_plot_data: except ValueError -> 400 str(e); any other exception leaves
\* the handler and the framework answers 500.
get_plot_data_raises(token, plot_id, e) ==
    LET req == [token |-> token, id |-> plot_id]
        current == get_current_active_user(token, NoIdp, users, now)
    IN  /\ ~ObjectId(plot_id).raise
        /\ users' = current.users
        /\ resp' = IF current.status # 200 THEN Refused("get_plot_data", req, current)
                   ELSE IF isinstance_ValueError(e)
                   THEN Response("get_plot_data", req, 400, str(e), None)
                   ELSE Response("get_plot_data", req, 500, "Internal Server Error", None)
        /\ UNCHANGED <<datasets, data_records, plots, nextId, now, bearer, inflight>>

\* Persisted plots whose x-axis is, and is not, a column of the dataset.
FaultPlotCreates ==
    {[title |-> "t", plot_type |-> plot_type, x_axis |-> x_axis, y_axis |-> NoneStr,
      dataset_id |-> 1] : plot_type \in {"histogram", "bar"}, x_axis \in {"a", "zz"}}

FaultPlotRequests ==
    {PlotGenerateRequest(1, plotType, "a", NoneStr) : plotType \in {"histogram", "pie"}}

NextFaults ==
    \/ \E token \in DataTokens : \E file \in RenderUploads :
           upload_dataset(token, "n", file)
    \/ \E token \in DataTokens : \E plot_create \in FaultPlotCreates :
           create_plot(token, plot_create)
    \/ \E token \in DataTokens : \E plot_request \in FaultPlotRequests :
           generate_plot(token, plot_request)
    \/ \E token \in DataTokens : \E plot_id \in RequestIds : get_plot_data(token, plot_id)
    \/ \E user_create \in UserCreates : \E e \in Exceptions : register_raises(user_create, e)
    \/ \E login_data \in LoginRequests : \E e \in Exceptions : login_raises(login_data, e)
    \/ \E google_data \in GoogleAuthRequests : \E e \in Exceptions :
           google_auth_raises(google_data, e)
    \/ \E token \in DataTokens : \E file \in RenderUploads : \E e \in Exceptions :
           upload_dataset_raises(token, "n", file, e)
    \/ \E token \in DataTokens : \E plot_request \in FaultPlotRequests :
           \E e \in Exceptions : generate_plot_raises(token, plot_request, e)
    \/ \E token \in DataTokens : \E plot_id \in RequestIds : \E e \in Exceptions :
           get_plot_data_raises(token, plot_id, e)

SpecFaults == InitData /\ [][NextFaults]_vars

(***************************************************************************)
(* SpecClassify: POST /test-auth presented with tokens of every leading    *)
(* text, signed or not, for a registered, an unregistered and no subject,  *)
(* expiring at time 1, while time passes.                                  *)
(***************************************************************************)
ClassifyTokens ==
    [prefix : {"ya29.", "1//", "eyJ", "ya29", "1/"}, signed : BOOLEAN,
     sub : {"a@x", "c@x", NoneStr}, exp : {1}]

NextClassify ==
    \/ tick
    \/ \E token \in ClassifyTokens : \E idp \in IdpOutcomesFor(token) : test_auth(token, idp)

SpecClassify == InitData /\ [][NextClassify]_vars

(***************************************************************************)
(* SpecColumns: user a@x uploads datasets and both users ask for ad-hoc    *)
(* figures of every type over known and unknown columns.                   *)
(***************************************************************************)
ColumnRequests ==
    {PlotGenerateRequest(datasetId, plotType, xAxis, yAxis) :
        datasetId \in 1..MaxIds, plotType \in PlotTypes, xAxis \in {"a", "zz"},
        yAxis \in {NoneStr, "b", "zz"}}

NextColumns ==
    \/ \E file \in RenderUploads :
           upload_dataset(create_access_token("a@x", TokenLifetime, 0), "n", file)
    \/ \E token \in DataTokens : \E plot_request \in ColumnRequests :
           generate_plot(token, plot_request)

SpecColumns == InitData /\ [][NextColumns]_vars

(***************************************************************************)
(* SpecNullUpdate: user a@x uploads a dataset, creates plots and updates   *)
(* them with PlotUpdates that leave fields out, set them to text, or set   *)
(* them to null; both users read plots.                                    *)
(***************************************************************************)
NullPlotUpdates ==
    {PlotUpdate(fields_set, title) :
        fields_set \in {{}, {"title"}, {"x_axis"}, {"y_axis"}}, title \in {"t2", NoneStr}}

NullUpdateUpload ==
    Upload(CsvName, 64, Csv(TRUE, <<"a", "b">>, << <<"x", "1">>, <<"y", "2">> >>))

NextNullUpdate ==
    \/ upload_dataset(create_access_token("a@x", TokenLifetime, 0), "n", NullUpdateUpload)
    \/ \E plot_create \in PlotCreates :
           create_plot(create_access_token("a@x", TokenLifetime, 0), plot_create)
    \/ \E token \in DataTokens : \E plot_id \in RequestIds :
           \E plot_update \in NullPlotUpdates : update_plot(token, plot_id, plot_update)
    \/ \E token \in DataTokens : \E plot_id \in RequestIds : get_plot(token, plot_id)
    \/ \E token \in DataTokens : get_plots(token)

SpecNullUpdate == InitData /\ [][NextNullUpdate]_vars

(***************************************************************************)
(* Claims about the User Directory, under SpecUsers.                       *)
(***************************************************************************)
EmailRegistered(email) == \E i \in 1..Len(users) : users[i].email = email

DuplicateUser(user_create) ==
    Response("register", user_create, 400, "User with this email already exists", None)

\* C3: a create_user call whose email is registered when it is made fails with
\* DuplicateUser whatever its other fields are (400 from register; inside
\* google_auth the ValueError ends the request with its 500), and the call
\* leaves the users collection as it was.
C3_DuplicateEmailFails ==
    [][ /\ \A r \in Reqs, user_create \in UserCreates :
             (register(r, user_create) /\ EmailRegistered(user_create.email))
                 => /\ resp' = DuplicateUser(user_create)
                    /\ users' = users
                    /\ inflight'[r].pc = "idle"
        /\ \A r \in Reqs :
             (google_create(r) /\ EmailRegistered(inflight[r].user_create.email))
                 => /\ resp'.status = 500
                    /\ users' = users
                    /\ inflight'[r].pc = "idle"
      ]_vars

\* C3 witness: register answered 400 for a registered email although the
\* username and the password of the request differ from the stored ones.
C3_Witness ==
    /\ resp = DuplicateUser(resp.req)
    /\ \E i \in 1..Len(users) :
         /\ users[i].email = resp.req.email
         /\ users[i].username # resp.req.username
         /\ users[i].hashed_password # get_password_hash(resp.req.password)

\* C4: the users collection holds at most one document per email.
C4_UniqueEmail ==
    \A i, j \in 1..Len(users) : users[i].email = users[j].email => i = j

\* The users created with exactly these credentials.
CreatedWith(email, password) ==
    {i \in 1..Len(users) :
        /\ users[i].email = email
        /\ verify_password(password, users[i].hashed_password)}

\* C5: login with the credentials a user was created with returns that user;
\* with any other password or an unregistered email it answers 401
\* "Incorrect email or password", the same in both cases.
C5_AuthenticateAfterCreate ==
    [][ \A login_data \in LoginRequests :
          login(login_data) =>
            LET created == CreatedWith(login_data.email, login_data.password)
            IN  IF created # {}
                THEN /\ resp'.status = 200
                     /\ \E i \in created : resp'.body.user = users[i]
                ELSE resp' = Response("login", login_data, 401,
                                      "Incorrect email or password", None)
      ]_vars


(***************************************************************************)
(* Claims about tokens and the Request Authenticator, under SpecSession.   *)
(***************************************************************************)
\* C6: register, login and login-form answer with a token whose subject is the
\* user's email and whose expiry is the configured lifetime after now; a token
\* so issued resolves to the user of its subject at every time before its
\* expiry and is refused (401) at every time after it.
C6_TokenLifetime ==
    [][ /\ (/\ resp' # resp
            /\ resp'.op \in {"register", "login", "login_form"}
            /\ resp'.status = 200)
               => /\ resp'.body.token.signed
                  /\ resp'.body.token.sub = resp'.body.user.email
                  /\ resp'.body.token.exp = now + TokenLifetime
        /\ resp'.op = "test_auth" =>
           \A token \in PresentedTokens : \A idp \in IdpOutcomesFor(token) :
             (test_auth(token, idp) /\ token.signed)
                 => /\ now < token.exp =>
                          /\ resp'.status = 200
                          /\ resp'.body.user_email = token.sub
                    /\ now > token.exp => resp'.status = 401
      ]_vars

\* C6 witness: a token the client kept was presented after its expiry and refused.
C6_Witness ==
    /\ resp.op = "test_auth"
    /\ resp.req.token = bearer
    /\ bearer.signed
    /\ now > bearer.exp
    /\ resp.status = 401

\* C8: get_current_user leaves the users collection as it is on every path, and
\* on the external path it answers 401 when the bridge returns nothing, when the
\* identity has no email, and when no local account has the verified email.
C8_ExternalPathNoProvisioning ==
    [][ resp'.op = "test_auth" =>
        \A token \in PresentedTokens : \A idp \in IdpOutcomesFor(token) :
          test_auth(token, idp) =>
            /\ users' = users
            /\ is_google_prefix(token) =>
                 LET user_info == verify_google_token(token, idp).value
                 IN  (\/ user_info = None
                      \/ user_info.email = NoneStr
                      \/ ~EmailRegistered(user_info.email))
                         => /\ resp'.status = 401
                            /\ resp'.body = None
      ]_vars

\* C8 witness: an external token verified for an email without a local account
\* was answered 401 while other accounts exist.
C8_Witness ==
    /\ resp.op = "test_auth"
    /\ is_google_prefix(resp.req.token)
    /\ resp.status = 401
    /\ resp.detail = "User not found. Please register first."
    /\ Len(users) > 0

(***************************************************************************)
(* Claims about the OAuth Bridge, under SpecBridge.                        *)
(***************************************************************************)
\* A step of the access-token verification did not succeed.
AccessTokenStepFailed(idp) ==
    \/ idp.tokeninfo.outcome # "response"
    \/ idp.tokeninfo.status_code # 200
    \/ /\ idp.tokeninfo.expires_in.present
       /\ \/ ~idp.tokeninfo.expires_in.numeric
          \/ idp.tokeninfo.expires_in.value <= 0
    \/ idp.userinfo.outcome # "response"
    \/ idp.userinfo.status_code # 200

\* A step of the identity-token verification did not succeed.
IdTokenStepFailed(idp) ==
    \/ idp.idinfo.outcome = "raise"
    \/ idp.idinfo.aud # "this-client"

\* C9 as stated: for every token, verify_google_token never raises and returns
\* None on a non-200 response, an expired token, an audience mismatch, a
\* timeout, a malformed response or any exception.
C9_FailsClosedOnEveryOutcome ==
    (resp.op = "verify_google_token" /\ resp.detail = "returned") =>
        LET token == resp.req.token
            idp == resp.req.idp
            failed == IF is_google_prefix(token)
                      THEN AccessTokenStepFailed(idp)
                           \/ idp.tokeninfo.audience # "this-client"
                      ELSE IdTokenStepFailed(idp)
        IN  /\ ~resp.body.raise
            /\ failed => resp.body.value = None

\* C9 amended: the audience is enforced for signed identity tokens only; the
\* audience tokeninfo reports for an opaque access token is not checked.  With
\* that, verify_google_token never raises, returns None whenever a verification
\* step failed, and returns an identity only when every step succeeded.
C9_FailsClosed ==
    (resp.op = "verify_google_token" /\ resp.detail = "returned") =>
        LET token == resp.req.token
            idp == resp.req.idp
            failed == IF is_google_prefix(token)
                      THEN AccessTokenStepFailed(idp)
                      ELSE IdTokenStepFailed(idp)
        IN  /\ ~resp.body.raise
            /\ failed <=> resp.body.value = None

\* C9 witness: tokeninfo answered 200 with an expires_in that is not a number
\* (int() raises inside the try block) and the call returned None.
C9_Witness ==
    /\ resp.op = "verify_google_token"
    /\ resp.detail = "returned"
    /\ is_google_prefix(resp.req.token)
    /\ resp.req.idp.tokeninfo.outcome = "response"
    /\ resp.req.idp.tokeninfo.status_code = 200
    /\ resp.req.idp.tokeninfo.expires_in.present
    /\ ~resp.req.idp.tokeninfo.expires_in.numeric
    /\ ~resp.body.raise
    /\ resp.body.value = None

(***************************************************************************)
(* Claims about tenant isolation and the inactive-user gate, under         *)
(* SpecAccess.                                                             *)
(***************************************************************************)
DatasetIdOps == {"get_dataset", "delete_dataset"}

PlotIdOps == {"get_plot", "update_plot", "delete_plot"}

ProtectedOps ==
    DatasetIdOps \cup PlotIdOps
    \cup {"upload_dataset", "get_datasets", "debug_all_datasets", "create_plot",
          "get_plots"}

\* The user a request's access token names, as stored before the request.
Caller(r) == get_user_by_email(users, r.req.token.sub)

Owns(docs, id, user_id) == \E d \in docs : d.id = id /\ d.user_id = user_id

NotFound(op, req) ==
    Response(op, req, 404,
             IF op \in DatasetIdOps
             THEN "Dataset not found or you don't have access to it"
             ELSE "Plot not found",
             None)

\* What the service functions answer for an identifier the user does not own.
AbsentInServices(id, user_id) ==
    /\ ~Owns(datasets, id, user_id) =>
          /\ DatasetService_get_dataset_by_id(datasets, id, user_id) = None
          /\ DatasetService_delete_dataset(datasets, data_records, id, user_id)
                = [deleted |-> FALSE, datasets |-> datasets,
                   data_records |-> data_records]
    /\ ~Owns(plots, id, user_id) =>
          /\ PlotService_get_plot_by_id(plots, id, user_id) = None
          /\ \A plot_update \in PlotUpdates :
                PlotService_update_plot(plots, id, user_id, plot_update)
                    = [plot |-> None, plots |-> plots]
          /\ PlotService_delete_plot(plots, id, user_id)
                = [deleted |-> FALSE, plots |-> plots]

\* C1: for every dataset or plot identifier and every active user who does
\* not own it, get_dataset_by_id, get_plot_by_id, update_plot, delete_dataset
\* and delete_plot answer absent and change nothing, and the endpoint built on
\* them answers one not-found response that is a function of the request
\* alone, whether the identifier is unknown or is another user's; storage is
\* left as it was.
C1_ForeignIsAbsent ==
    [][(/\ resp'.op \in DatasetIdOps \cup PlotIdOps
        /\ Caller(resp') # None
        /\ Caller(resp').is_active
        /\ resp'.req.id >= 1
        /\ ~Owns(IF resp'.op \in DatasetIdOps THEN datasets ELSE plots,
                 resp'.req.id, Caller(resp').id))
       => /\ AbsentInServices(resp'.req.id, Caller(resp').id)
          /\ resp' = NotFound(resp'.op, resp'.req)
          /\ storage' = storage]_vars

\* A user was just refused another user's existing dataset, and another
\* user's plot is stored too.
C1_Witness ==
    /\ resp.op = "get_dataset"
    /\ resp.status = 404
    /\ \E d \in datasets : d.id = resp.req.id /\ d.user_id # Caller(resp).id
    /\ \E p \in plots : p.user_id # Caller(resp).id

\* The datasets and plots a response carries.
BodyItems(r) ==
    IF r.status # 200 THEN {}
    ELSE IF r.op \in {"get_datasets", "get_plots", "debug_all_datasets"}
    THEN r.body.items
    ELSE IF r.op \in {"upload_dataset", "create_plot", "get_plot", "update_plot"}
    THEN {r.body}
    ELSE IF r.op = "get_dataset" THEN {r.body.dataset}
    ELSE {}

\* C2: no response of a dataset or plot endpoint to an authenticated user
\* carries a dataset or plot (its id, name or owner id) of another user.
C2_NoForeignItemInResponse ==
    resp.op \in ProtectedOps =>
        \A item \in BodyItems(resp) : item.user_id = Caller(resp).id

\* C7: when the user a bearer token resolves to is inactive, every dataset
\* and plot endpoint answers 400 "Inactive user" with no body and storage is
\* left as it was.
C7_InactiveUserGate ==
    [][(/\ resp'.op \in ProtectedOps
        /\ get_current_user(resp'.req.token, NoIdp, users, now).status = 200
        /\ ~get_current_user(resp'.req.token, NoIdp, users, now).user.is_active)
       => /\ resp' = Response(resp'.op, resp'.req, 400, "Inactive user", None)
          /\ storage' = storage]_vars

\* A deactivated user was just refused the upload of an acceptable file.
C7_Witness ==
    /\ resp.op = "upload_dataset"
    /\ resp.status = 400
    /\ resp.detail = "Inactive user"
    /\ ~Caller(resp).is_active
    /\ resp.req.file.csv.parses
    /\ lower_endswith_csv(resp.req.file.filename)

(***************************************************************************)
(* Claims about Dataset Ingestion, under SpecIngest.                       *)
(***************************************************************************)
Acceptable(file) ==
    /\ lower_endswith_csv(file.filename)
    /\ file.size <= MaxUploadBytes
    /\ file.csv.parses

DistinctHeader(csv) ==
    \A i, j \in 1..Len(csv.header) : csv.header[i] = csv.header[j] => i = j

\* The i-th data row of the file as header cell -> cell.
FileRow(csv, i) ==
    [c \in {csv.header[j] : j \in 1..Len(csv.header)} |->
        csv.rows[i][CHOOSE j \in 1..Len(csv.header) : csv.header[j] = c]]

\* The upload that just answered persisted the file as the claim says.
IngestedAsFile ==
    LET csv == resp'.req.file.csv
        N == Len(csv.rows)
        dataset == resp'.body
        records == {r \in data_records' : r.dataset_id = dataset.id}
    IN  /\ resp'.status = 200
        /\ dataset.columns = csv.header
        /\ dataset.row_count = N
        /\ dataset \notin datasets
        /\ datasets' = datasets \cup {dataset}
        /\ \A r \in data_records : r.dataset_id # dataset.id
        /\ data_records' = data_records \cup records
        /\ Cardinality(records) = N
        /\ {r.row_index : r \in records} = 0..(N - 1)
        /\ \A r \in records : r.data = FileRow(csv, r.row_index + 1)
        /\ DatasetService_get_dataset_data(datasets', data_records', dataset.id,
                                           dataset.user_id, DefaultLimit, 0)
              = [i \in 1..N |-> FileRow(csv, i)]

RecordAt(records, p) ==
    CHOOSE r \in records :
        Cardinality({q \in records : q.row_index < r.row_index}) = p - 1

\* The rows at positions skip..skip+limit-1 (from 0) of that ordering.
ClaimedPage(records, limit, skip) ==
    LET last == IF skip + limit > Cardinality(records) THEN Cardinality(records)
                ELSE skip + limit
    IN  IF last <= skip THEN << >>
        ELSE [i \in 1..(last - skip) |-> RecordAt(records, skip + i).data]

\* C11: get_dataset_data(dataset_id, user_id, limit, skip) returns the rows at
\* positions skip..skip+limit-1 of the dataset's records in ascending
\* row_index when the caller owns the dataset, and the empty sequence when the
\* dataset is absent or another user's.
C11_RowsPage ==
    [][(resp'.op = "get_dataset" /\ resp'.req.id >= 1)
       => LET id == resp'.req.id
              user_id == Caller(resp').id
              rows == DatasetService_get_dataset_data(
                          datasets, data_records, id, user_id,
                          resp'.req.limit, resp'.req.skip)
          IN  IF Owns(datasets, id, user_id)
              THEN /\ rows = ClaimedPage({r \in data_records : r.dataset_id = id},
                                         resp'.req.limit, resp'.req.skip)
                   /\ resp'.body.sample_data = rows
              ELSE rows = << >>]_vars

(***************************************************************************)
(* Claims about delete_dataset's storage calls, under SpecDelete.          *)
(***************************************************************************)
RecordsOf(recs, dataset_id) == {r \in recs : r.dataset_id = dataset_id}

PartiallyUpdated(before, after, update) ==
    /\ DOMAIN after = DOMAIN before
    /\ \A f \in DOMAIN before :
          after[f] = IF f \in update.fields_set THEN update[f] ELSE before[f]

SupportedPlotTypes == {"scatter", "line", "bar", "histogram", "box"}

\* A request for a figure of an unsupported type failed and changed nothing;
\* it failed as an unsupported type when rows and columns were there to draw.
UnsupportedRenderFails ==
    /\ (resp'.op = "generate_plot"
        /\ resp'.req.plot_request.plotType \notin SupportedPlotTypes)
       => /\ resp'.status # 200
          /\ storage' = storage
          /\ resp'.status = 400 /\ resp'.detail # "Unsupported plot type"
                => resp'.detail \in {"Invalid dataset ID", "No data found for plot",
                                     "Column xAxis not found in dataset",
                                     "Column yAxis not found in dataset"}
    /\ (resp'.op = "get_plot_data"
        /\ \E p \in plots : /\ p.id = resp'.req.id
                            /\ p.user_id = Caller(resp').id
                            /\ p.plot_type \notin SupportedPlotTypes)
       => /\ resp'.status = 400
          /\ resp'.detail \in {"Unsupported plot type", "No data found for plot"}
          /\ storage' = storage

\* C15: a request for a plot whose type is not scatter, line, bar, histogram
\* or box fails and creates, changes and deletes no plot, dataset or data
\* record, whether it asks for an ad-hoc figure (generate_plot), for the figure
\* of a persisted plot (get_plot_data) or for the plot to be persisted
\* (create_plot).
C15_UnsupportedTypeNoSideEffects ==
    [][/\ UnsupportedRenderFails
       /\ (resp'.op = "create_plot"
           /\ resp'.req.plot_create.plot_type \notin SupportedPlotTypes)
          => /\ resp'.status # 200
             /\ storage' = storage]_vars

\* The bars of a figure as (x value, height) pairs.
BarsOf(fig) == {[x |-> fig.x[k], height |-> fig.y[k]] : k \in DOMAIN fig.x}

\* One bar per distinct value of the column among the dataset's stored rows,
\* as high as the number of rows holding that value.
FrequencyBars(fig, dataset_id, column) ==
    LET rows == RecordsOf(data_records, dataset_id)
        values == {r.data[column] : r \in rows}
    IN  /\ fig.kind = "bar"
        /\ Len(fig.x) = Cardinality(values)
        /\ Len(fig.y) = Len(fig.x)
        /\ BarsOf(fig) = {[x |-> v,
                           height |-> Cardinality({r \in rows : r.data[column] = v})] :
                             v \in values}

\* The dataset has rows, all holding the column.
HasColumn(dataset_id, column) ==
    /\ RecordsOf(data_records, dataset_id) # {}
    /\ \A r \in RecordsOf(data_records, dataset_id) : column \in DOMAIN r.data

\* The bar requests of the step that just answered drew frequency bars; on the
\* ad-hoc path the y-axis is one of adhoc_y, on the persisted path any y-axis
\* that is absent or no column of the rows.
BarCounts(adhoc_y) ==
    /\ (/\ resp'.op = "generate_plot"
        /\ resp'.req.plot_request.plotType = "bar"
        /\ Owns(datasets, resp'.req.plot_request.datasetId, Caller(resp').id)
        /\ HasColumn(resp'.req.plot_request.datasetId, resp'.req.plot_request.xAxis)
        /\ resp'.req.plot_request.yAxis \in adhoc_y
        /\ ~HasColumn(resp'.req.plot_request.datasetId, resp'.req.plot_request.yAxis))
       => /\ resp'.status = 200
          /\ FrequencyBars(resp'.body.data, resp'.req.plot_request.datasetId,
                           resp'.req.plot_request.xAxis)
    /\ resp'.op = "get_plot_data"
       => \A p \in plots :
            (/\ p.id = resp'.req.id
             /\ p.user_id = Caller(resp').id
             /\ p.plot_type = "bar"
             /\ Owns(datasets, p.dataset_id, p.user_id)
             /\ HasColumn(p.dataset_id, p.x_axis)
             /\ ~HasColumn(p.dataset_id, p.y_axis))
            => /\ resp'.status = 200
               /\ FrequencyBars(resp'.body.data, p.dataset_id, p.x_axis)

\* C16 as stated: a bar plot over an x-axis column with no y-axis, or a y-axis
\* that is no column of the rows, is drawn as one bar per distinct x value as
\* high as the number of rows with that value, ad hoc and persisted.
C16_BarCountsAnyY == [][BarCounts({NoneStr, "b", "zz"})]_vars

\* C16: the same, where the ad-hoc path is asked with no y-axis.
C16_BarCounts == [][BarCounts({NoneStr})]_vars

\* Rows with a = x, x, y were just drawn ad hoc as the bars x: 2 and y: 1.
C16_Witness ==
    /\ resp.op = "generate_plot"
    /\ resp.status = 200
    /\ resp.req.plot_request.plotType = "bar"
    /\ resp.req.plot_request.yAxis = NoneStr
    /\ BarsOf(resp.body.data) = {[x |-> "x", height |-> 2], [x |-> "y", height |-> 1]}

(***************************************************************************)
(* Claims about dataset statistics, under SpecStats.                       *)
(***************************************************************************)
\* C17: get_dataset_stats on a dataset of N rows with a numeric column in
\* which every cell is missing returns, for that column, mean, std, min, max
\* and median all 0 and a missing-value count of N.
C17_AllMissingColumnZeros ==
    [][(resp'.op = "get_dataset_stats"
        /\ Owns(datasets, resp'.req.id, Caller(resp').id))
       => LET rows == RecordsOf(data_records, resp'.req.id)
              stats == DatasetService_get_dataset_stats(
                           datasets, data_records, resp'.req.id, Caller(resp').id)
          IN  \A r \in rows : \A c \in DOMAIN r.data :
                 (\A q \in rows : q.data[c] = NaNCell)
                 => /\ stats # None
                    /\ c \in DOMAIN stats.summary_stats
                    /\ \A name \in StatNames : stats.summary_stats[c][name] = Zero
                    /\ stats.missing_values[c] = Cardinality(rows)]_vars

(***************************************************************************)
(* Claims about the upload boundary, under SpecIngest.                     *)
(***************************************************************************)
EndsInCsvAnyCase(filename) ==
    /\ Len(filename) >= 4
    /\ filename[Len(filename) - 3] = "."
    /\ filename[Len(filename) - 2] \in {"c", "C"}
    /\ filename[Len(filename) - 1] \in {"s", "S"}
    /\ filename[Len(filename)] \in {"v", "V"}

TenMiB == 10 * 1024 * 1024

FailsPrecondition(file) ==
    \/ file.filename = << >>
    \/ ~EndsInCsvAnyCase(file.filename)
    \/ file.size > TenMiB

\* C18: an upload whose filename is empty, does not end in .csv
\* (case-insensitively), or whose content exceeds 10 MiB is rejected with a 400
\* error and no Dataset or DataRecord is persisted; a parseable .csv upload of
\* exactly 10 MiB is accepted.
C18_UploadPreconditions ==
    [][resp'.op = "upload_dataset"
       => LET file == resp'.req.file
          IN  /\ FailsPrecondition(file)
                 => /\ resp'.status = 400
                    /\ resp'.detail \in {"No file provided",
                                         "Only CSV files are supported",
                                         "File size too large. Maximum 10MB allowed."}
                    /\ UNCHANGED storage
              /\ (~FailsPrecondition(file) /\ file.size = TenMiB /\ file.csv.parses)
                 => /\ resp'.status = 200
                    /\ resp'.body \in datasets' \ datasets]_vars

\* C18 witness: an upload of 10 MiB + 1 bytes was refused with nothing stored.
C18_Witness ==
    /\ resp.op = "upload_dataset"
    /\ resp.req.file.size = TenMiB + 1
    /\ resp.status = 400
    /\ datasets = {}
    /\ data_records = {}

(***************************************************************************)
(* Claims about exceptions at the API boundary, under SpecFaults.          *)
(***************************************************************************)
CatchingHandlers ==
    {"register", "login", "google_auth", "upload_dataset", "generate_plot",
     "get_plot_data"}

\* The texts of the exceptions the handlers do not raise themselves.
UnanticipatedTexts == {str(PyMongoError), str(PlotlyValueError)}

CarriesExceptionText(detail) ==
    \E text \in UnanticipatedTexts :
        \E prefix \in {"", "Failed to generate plot: "} : detail = prefix \o text

\* C19: whenever an unanticipated exception occurs inside register, login,
\* google_auth, upload_dataset, generate_plot or get_plot_data, the response
\* carries a fixed generic message and never the exception's text.
C19_NoExceptionTextInResponse ==
    [][resp'.op \in CatchingHandlers => ~CarriesExceptionText(resp'.detail)]_vars

(***************************************************************************)
(* Claims about the Request Authenticator's classification, under          *)
(* SpecClassify.                                                           *)
(***************************************************************************)
ExternalPrefix(token) == token.prefix \in {"ya29.", "1//"}

\* What the authenticator answers, without the collection it hands on.
Verdict(token, idp) ==
    LET current == get_current_user(token, idp, users, now)
    IN  [status |-> current.status, user |-> current.user]

\* The tokens that differ from this one in signature, subject or expiry only.
SameLeadingText(token) == {t \in ClassifyTokens : t.prefix = token.prefix}

\* C20: a token starting with 'ya29.' or '1//' is verified only through the
\* OAuth Bridge (its signature, subject and expiry have no influence on the
\* answer, and the bridge's refusal is final); every other token is verified
\* only as a local signed token (the identity provider's answer has no
\* influence), and on that path a token that does not verify, has no subject
\* or names an unknown email is answered Unauthorized.
C20_ClassifiedByPrefix ==
    [][(resp'.op = "test_auth" /\ now' = now)
       => LET token == resp'.req.token
          IN  IF ExternalPrefix(token)
              THEN /\ \A idp \in SessionIdpOutcomes :
                         LET verdict == Verdict(token, idp)
                         IN  /\ \A t \in SameLeadingText(token) : Verdict(t, idp) = verdict
                             /\ verify_google_token(token, idp).value = None
                                => verdict.status = 401
                   /\ \E idp \in SessionIdpOutcomes :
                         resp'.status = Verdict(token, idp).status
              ELSE /\ \A idp \in SessionIdpOutcomes :
                         Verdict(token, idp)
                            = Verdict(token, IdpAnswer("timeout", 0, "timeout", 0, NoneStr))
                   /\ (verify_token(token, now).raise
                       \/ token.sub = NoneStr
                       \/ get_user_by_email(users, token.sub) = None)
                      => resp'.status = 401
                   /\ (~verify_token(token, now).raise
                       /\ get_user_by_email(users, token.sub) # None)
                      => /\ resp'.status = 200
                         /\ resp'.body.user_email = token.sub]_vars

\* C20 witness: a 'ya29.' token that would verify as a local token of a@x was
\* refused, and a token without subject was refused.
C20_Witness ==
    /\ resp.op = "test_auth"
    /\ resp.status = 401
    /\ \/ /\ resp.req.token.prefix = "ya29."
          /\ ~verify_token(resp.req.token, now).raise
          /\ resp.req.token.sub = "a@x"
       \/ /\ resp.req.token.prefix = "eyJ"
          /\ ~verify_token(resp.req.token, now).raise
          /\ resp.req.token.sub = NoneStr

(***************************************************************************)
(* Claims about malformed uploads, under SpecIngest.                       *)
(***************************************************************************)
\* C21: create_dataset on a file whose bytes do not decode or do not parse
\* fails with ParseError, answered 400, and leaves the datasets and
\* data_records collections unchanged.
C21_MalformedPersistsNothing ==
    [][(resp'.op = "upload_dataset"
        /\ ~FailsPrecondition(resp'.req.file)
        /\ ~resp'.req.file.csv.parses)
       => /\ resp'.status = 400
          /\ resp'.detail = "Error parsing CSV file"
          /\ datasets' = datasets
          /\ data_records' = data_records]_vars

\* C21 witness: a malformed .csv was refused while a dataset and its records
\* were stored, and they are still stored.
C21_Witness ==
    /\ resp.op = "upload_dataset"
    /\ ~FailsPrecondition(resp.req.file)
    /\ ~resp.req.file.csv.parses
    /\ resp.status = 400
    /\ datasets # {}
    /\ data_records # {}

(***************************************************************************)
(* Claims about the ad-hoc path's column validation, under SpecColumns.    *)
(***************************************************************************)
\* The columns of the rows stored for a dataset.
ColumnsOf(recs, dataset_id) ==
    UNION {DOMAIN r.data : r \in RecordsOf(recs, dataset_id)}

\* The request names an x-axis, or supplies a y-axis, that the caller's rows
\* do not have.
NamesUnknownColumn(r) ==
    LET plot_request == r.req.plot_request
        columns == ColumnsOf(data_records, plot_request.datasetId)
    IN  /\ Owns(datasets, plot_request.datasetId, Caller(r).id)
        /\ RecordsOf(data_records, plot_request.datasetId) # {}
        /\ \/ plot_request.xAxis \notin columns
           \/ plot_request.yAxis # NoneStr /\ plot_request.yAxis \notin columns

\* C22: on the ad-hoc path a requested x-axis column, or a supplied y-axis
\* column, that is not among the columns of the resolved rows fails with
\* UnknownColumn (400), whatever the plot type, supported or not, and no
\* figure is drawn.
C22_UnknownColumnBeforeCharting ==
    [][(resp'.op = "generate_plot" /\ NamesUnknownColumn(resp'))
       => /\ resp'.status = 400
          /\ resp'.detail \in {"Column xAxis not found in dataset",
                               "Column yAxis not found in dataset"}
          /\ resp'.body = None
          /\ UNCHANGED storage]_vars

\* C22 witness: a pie over an unknown x-axis was answered UnknownColumn.
C22_Witness ==
    /\ resp.op = "generate_plot"
    /\ NamesUnknownColumn(resp)
    /\ resp.req.plot_request.plotType = "pie"
    /\ resp.req.plot_request.xAxis = "zz"
    /\ resp.status = 400
    /\ resp.detail = "Column xAxis not found in dataset"

(***************************************************************************)
(* Claims comparing the ad-hoc and the persisted render path, under        *)
(* SpecRender.                                                             *)
(***************************************************************************)
RenderablePlotTypes == {"scatter", "line", "bar", "histogram", "box"}

\* The chart kind of an answer that carries a figure, else "error".
AdHocOutcome(r) == IF r.status = 200 THEN r.body.data.kind ELSE "error"

\* What generate_plot_data draws for a plot with the request's type and axes
\* over the same rows.
PersistedOutcome(r) ==
    LET plot_request == r.req.plot_request
        plot == [plot_type |-> plot_request.plotType, x_axis |-> plot_request.xAxis,
                 y_axis |-> plot_request.yAxis]
        data == DatasetService_get_dataset_data(datasets, data_records,
                                                plot_request.datasetId, Caller(r).id,
                                                RenderLimit, 0)
        rendered == generate_plot_data_figure(plot, data)
    IN  IF rendered.error = "none" THEN rendered.fig.kind ELSE "error"

\* C23: for every plot type in {scatter, line, bar, histogram, box}, every
\* x/y axis choice and every row set, generate_plot (ad-hoc) and
\* generate_plot_data (persisted) produce the same chart kind or both fail.
C23_SameOutcomeOnBothPaths ==
    [][(/\ resp'.op = "generate_plot"
        /\ resp'.req.plot_request.plotType \in RenderablePlotTypes
        /\ Owns(datasets, resp'.req.plot_request.datasetId, Caller(resp').id)
        /\ RecordsOf(data_records, resp'.req.plot_request.datasetId) # {})
       => AdHocOutcome(resp') = PersistedOutcome(resp')]_vars

(***************************************************************************)
(* Claims about token issuing, under SpecUsers.                            *)
(***************************************************************************)
IssuingHandlers == {"register", "login", "login_form", "google_auth"}

\* The request that was just answered proved the identity of email e: its
\* password authenticates e, it registered e, or it carried an external token
\* that the OAuth Bridge verified with email e.
ProvedIdentity(r, e) ==
    \/ /\ r.op \in {"login", "login_form"}
       /\ r.req.email = e
       /\ authenticate_user(users, e, r.req.password) # None
    \/ /\ r.op = "register"
       /\ r.req.email = e
       /\ Len(users') = Len(users) + 1
       /\ users'[Len(users')].email = e
    \/ /\ r.op = "google_auth"
       /\ "token" \in DOMAIN r.req
       /\ \E idp \in SessionIdpOutcomes :
             LET user_info == verify_google_token(r.req.token, idp)
             IN  user_info.value # None /\ user_info.value.email = e

\* C24: each token issued for subject e is preceded in the same request by a
\* successful password authentication for e, a successful registration of e,
\* or a successful OAuth Bridge verification of an external token whose
\* verified email is e.
C24_TokenOnlyAfterProof ==
    [][(resp' # resp /\ resp'.op \in IssuingHandlers /\ resp'.status = 200)
       => ProvedIdentity(resp', resp'.body.token.sub)]_vars

(***************************************************************************)
(* Claims about concurrent uploads and deletes, under SpecDelete.          *)
(***************************************************************************)
\* C25: under every interleaving of create_dataset and delete_dataset
\* requests, once all requests have completed every DataRecord's dataset_id
\* refers to an existing Dataset document.
C25_NoOrphanWhenQuiescent ==
    (\A r \in Reqs : SlotIdle(r))
    => \A record \in data_records : \E d \in datasets : d.id = record.dataset_id

(***************************************************************************)
(* Claims about plots and the datasets they reference, under SpecAccess.   *)
(***************************************************************************)
\* C26: after any sequence of plot and dataset operations every persisted
\* Plot references a Dataset that still exists and is owned by the plot's
\* user.
C26_PlotsReferenceOwnedDatasets ==
    \A plot \in plots : Owns(datasets, plot.dataset_id, plot.user_id)

(***************************************************************************)
(* Claims about plot updates with null fields, under SpecNullUpdate.       *)
(***************************************************************************)
\* C27: after any sequence of update_plot calls with any PlotUpdate, fields
\* explicitly set to null included, every stored plot has a non-null title,
\* plot_type and x_axis, and update_plot, get_plot and get_plots never fail
\* to load a plot.
C27_StoredPlotsStayLoadable ==
    /\ \A plot \in plots :
          plot.title # NoneStr /\ plot.plot_type # NoneStr /\ plot.x_axis # NoneStr
    /\ resp.op \in {"update_plot", "get_plot", "get_plots"} => resp.status # 500

(***************************************************************************)
(* Claims about absent statistics, under SpecStats.                        *)
(***************************************************************************)
\* C28: for every dataset that exists and is owned by the caller, one
\* ingested from a header-only file included, get_dataset_stats returns a
\* DatasetStats value whose total_rows is the number of its rows, and the
\* endpoint does not answer 404.
C28_StatsForEveryOwnedDataset ==
    [][(resp'.op = "get_dataset_stats"
        /\ Owns(datasets, resp'.req.id, Caller(resp').id))
       => LET stats == DatasetService_get_dataset_stats(
                           datasets, data_records, resp'.req.id, Caller(resp').id)
          IN  /\ stats # None
              /\ stats.total_rows = Cardinality(RecordsOf(data_records, resp'.req.id))
              /\ resp'.status # 404]_vars

=============================================================================
